---- MODULE Spec2Model ----
(***************************************************************************)
(* Model of the minimap2-rs work-distribution pipeline                     *)
(* (examples/channels.rs, fakeminimap2/src/channels.rs) and of the shared  *)
(* index handle of Aligner<Built> (src/lib.rs).                            *)
(*                                                                         *)
(* Pipeline: one producer thread, `threads` worker threads and the         *)
(* collector loop of `map`, communicating through two crossbeam ArrayQueue *)
(* instances and one AtomicBool.  Every queue operation (push, pop,        *)
(* is_empty) and every atomic load/store is one atomic step; the steps of  *)
(* different threads interleave freely.  Backoff::snooze and thread::sleep *)
(* only delay a thread and change no state.                                *)
(*                                                                         *)
(* A record is identified by its position in the input; records[i] is TRUE *)
(* when its sequence is non-empty and FALSE when it is empty, in which     *)
(* case Aligner::map returns Err("Sequence is empty") and the worker's     *)
(* .expect("Unable to align") panics.                                      *)
(*                                                                         *)
(* Further parts, each a specification of its own over the same variables: *)
(* the aligner builder (SpecBuilder), the generated flag methods of        *)
(* minimap2-sys (SpecFlags), threads calling the &self methods of one      *)
(* Built aligner with their thread-local buffers (SpecShared), the test    *)
(* test_send (SpecSend) and the multithreaded map of the Python binding    *)
(* (SpecPy), the kt_pipeline of minimap2-sys (SpecKt), the head of         *)
(* Aligner::map (SpecMap), and of fakeminimap2 the stores of the user      *)
(* interface (SpecStore, SpecQuery), its dispatcher (SpecRoute) and the    *)
(* threads of its main (SpecMain).                                         *)
(***************************************************************************)
EXTENDS Integers, Sequences, FiniteSets, TLC

\* Bounds of the model
MaxThreads == 2
MaxCap == 2
MaxRecords == 3
MaxClones == 2
MaxRunRecords == 2

VARIABLES
    threads,     \* number of worker threads (argument of map)
    cap,         \* capacity of work_queue and results_queue
    records,     \* the records the reader yields, in order
    ppc,         \* producer thread position
    ppos,        \* number of records the producer has read
    work,        \* the WorkItem the producer holds (0 = none)
    workQ,       \* work_queue
    resQ,        \* results_queue
    shutdown,    \* the shutdown flag
    wpc,         \* position of each worker thread
    witem,       \* the item / result each worker holds (0 = none)
    cpc,         \* position of the collector loop in map
    collected,   \* per record, how many results the collector has popped
    pushCnt,     \* per record, successful pushes onto work_queue
    popCnt,      \* per record, pops from work_queue
    resCnt,      \* per record, successful pushes onto results_queue
    hstate,      \* per aligner handle: "none", "live", "destroying", "dropped"
    arcOf,       \* per aligner handle: the Arc allocation its idx field points to
    strong,      \* per Arc allocation: strong count
    destroyed,   \* number of calls of mm_idx_destroy
    mapped,      \* per aligner handle: strong count seen at its last map (0 = never)
    uad,         \* a map ran on the index after mm_idx_destroy
    idxSrc,      \* the target file handed to with_index
    astrong,     \* strong count of the Arc<Aligner<Built>> shared by map and workers
    num_alignments, \* the collector's running total
    waln,        \* per worker: the record whose sequence its alignment was computed from
    alnOf,       \* per record id: the record whose alignment was pushed under that id
    bst,         \* builder: typestate of the aligner value
    bpresets,    \* builder: presets applied by mm_set_opt since the last reset
    bclip,       \* builder: cigar_clipping
    bidx,        \* builder: the idx field is Some
    nforeign,    \* builder: foreign indexes created (mm_idx_reader_read, mm_idx_str)
    berr,        \* builder: the Err a build returned ("" = none)
    bsrc,        \* builder: the path handed to with_index
    bout,        \* builder: the output handed to with_index
    bmaps,       \* builder: calls of map on the Built aligner
    mflag,       \* mm_mapopt_t.flag (i64), as the set of its one-bits
    iflag,       \* mm_idxopt_t.flag (c_short), as the set of its one-bits
    fop,         \* the last flag method called: "none", "set", "unset"
    fword,       \* the struct it was called on: "map" or "idx"
    fflag,       \* the flag it was generated for
    top,         \* per thread sharing &Aligner<Built>: the method it is inside ("idle" = none)
    ixjj,        \* the index holds junction data (mm_idx_jjump_read succeeded)
    ixspsc,      \* the index's spsc pointer is non-null
    ixwrites,    \* writes made to the index after it was built
    race,        \* a write to the index overlapped another thread's access
    tbuf,        \* per thread: its thread-local BUF: "none", "live", "destroyed"
    tinits,      \* per thread: calls of mm_tbuf_init for its BUF
    tdestroys,   \* per thread: calls of mm_tbuf_destroy on its BUF
    tused,       \* pairs <<t, b>>: thread t ran mm_map with the buffer of thread b
    mpc,         \* test_send: position of the building thread
    alignments,  \* test_send: the building thread's result (<<>> = not yet mapped)
    spc,         \* test_send: position of each sender thread
    sres,        \* test_send: the batch each sender mapped (<<>> = none)
    chan,        \* test_send: batches in the mpsc channel
    nsenders,    \* test_send: Sender handles alive
    rpc,         \* test_send: position of the receiver thread
    ret,         \* test_send: the receiver's Vec of batches
    ythreads,    \* Python binding: self.aligner.threads
    ycap,        \* Python binding: capacity of results_queue
    yseqs,       \* Python binding: seqs; yseqs[i] is TRUE when sequence i is non-empty
    ywork,       \* Python binding: length of the work list behind the Mutex
    ywpc,        \* Python binding: position of each worker thread
    ywitem,      \* Python binding: the sequence / result each worker holds (0 = none)
    yq,          \* Python binding: results_queue; i = Work(result of i), 0 = Done
    ycpc,        \* Python binding: position of the collector loop
    ycollected,  \* Python binding: per sequence, results pushed onto mappings
    yfinished,   \* Python binding: finished_count
    ydelivered,  \* Python binding: per worker, Done markers that entered the queue
    ypopped,     \* Python binding: per sequence, pops from the work list
    kn,          \* kt_pipeline: n_threads
    ksteps,      \* kt_pipeline: n_steps
    kindex,      \* kt_pipeline: KtpShared::index, the next index to hand out
    kstep,       \* kt_pipeline: per worker, KtpWorker::step
    kidx,        \* kt_pipeline: per worker, KtpWorker::index
    kdata,       \* kt_pipeline: per worker, KtpWorker::data (0 is null)
    kpc,         \* kt_pipeline: per worker, position in the thread's loop
    kholder,     \* kt_pipeline: worker holding the mutex, 0 when it is free
    kin,         \* kt_pipeline: per worker, input_data of the current call
    kret,        \* kt_pipeline: per worker, value its last call of func returned
    kleft,       \* kt_pipeline: step-0 calls that still return data
    khist,       \* kt_pipeline: calls of func that returned, <<index, step, null>>
    kassigned,   \* kt_pipeline: the indices handed out, in order of assignment
    mstore,      \* MappingResultStore: per id, the entry in `mappings`, 0 = none
    mcontent,    \* MappingResultStore: per entry, the mappings in its vector
    mtask,       \* MappingResultStore: per AddMappings, position of its task
    mid,         \* MappingResultStore: per AddMappings, the id it carries
    mheld,       \* MappingResultStore: per AddMappings, the entry its task cloned
    mdpc,        \* MappingResultStore: position of dispatch(SetSelectedMappings)
    mdid,        \* MappingResultStore: id of the SetSelectedMappings in progress
    mnsel,       \* MappingResultStore: SetSelectedMappings dispatched so far
    mui,         \* MappingResultStore: entry last sent to the UI state, 0 = none
    qlen,        \* QuerySequencesStore: query_sequences.len()
    qcurrent,    \* QuerySequencesStore: current
    qchan,       \* QuerySequencesStore: SetSelectedQuery(n) sent and not yet dispatched
    qpanic,      \* QuerySequencesStore: the dispatcher task panicked in dispatch
    gcap,        \* fakeminimap2 main: capacity of work_queue and results_queue
    gnw,         \* fakeminimap2 main: number of worker threads
    gwork,       \* fakeminimap2 main: work_queue, the pushes numbered in order
    gres,        \* fakeminimap2 main: results_queue
    gnext,       \* fakeminimap2 main: pushes the feeder has attempted
    gwpc,        \* fakeminimap2 main: per worker, position in its loop
    gwitem,      \* fakeminimap2 main: per worker, the work item it holds, 0 if none
    galigned,    \* fakeminimap2 main: work items a worker has aligned
    gcounted,    \* fakeminimap2 main: alignments the collector loop has counted
    aidx,        \* Aligner::map: the aligner's idx is Some
    amapflag,    \* Aligner::map: the aligner's mapopt.flag, as a set of flags
    amaxfrag,    \* Aligner::map: the aligner's mapopt.max_frag_len
    amaps,       \* Aligner::map: calls of map so far
    acalls,      \* Aligner::map: calls of the foreign mm_map so far
    aseq,        \* Aligner::map: the sequence of the last call
    aret,        \* Aligner::map: what the last call returned
    aopt,        \* Aligner::map: the options the last mm_map call was given
    dchan,       \* dispatcher: actions sent on dispatcher_tx and not yet received
    dsent,       \* dispatcher: actions the pipeline and the UI have sent
    dnq,         \* dispatcher: query sequences in the QuerySequencesStore
    dstop,       \* dispatcher: the panic that ended the dispatcher task, if any
    dlog         \* dispatcher: for each action received, where the dispatcher passed it

pvars == <<threads, cap, records, ppc, ppos, work, workQ, resQ, shutdown,
           wpc, witem, cpc, collected, pushCnt, popCnt, resCnt>>
ivars == <<hstate, arcOf, strong, destroyed, mapped, uad>>
xvars == <<idxSrc, astrong, num_alignments, waln, alnOf>>
bvars == <<bst, bpresets, bclip, bidx, nforeign, berr, bsrc, bout, bmaps>>
\* state outside the pipeline and the index handle
fvars == <<mflag, iflag, fop, fword, fflag>>
svars == <<top, ixjj, ixspsc, ixwrites, race>>
tvars == <<tbuf, tinits, tdestroys, tused>>
nvars == <<mpc, alignments, spc, sres, chan, nsenders, rpc, ret>>
yvars == <<ythreads, ycap, yseqs, ywork, ywpc, ywitem, yq, ycpc, ycollected,
           yfinished, ydelivered, ypopped>>
kvars == <<kn, ksteps, kindex, kstep, kidx, kdata, kpc, kholder, kin, kret,
           kleft, khist, kassigned>>
mvars == <<mstore, mcontent, mtask, mid, mheld, mdpc, mdid, mnsel, mui>>
qvars == <<qlen, qcurrent, qchan, qpanic>>
gvars == <<gcap, gnw, gwork, gres, gnext, gwpc, gwitem, galigned, gcounted>>
avars == <<aidx, amapflag, amaxfrag, amaps, acalls, aseq, aret, aopt>>
dvars == <<dchan, dsent, dnq, dstop, dlog>>
lvars == <<kvars, mvars, qvars, gvars, avars, dvars>>
evars == <<bvars, fvars, svars, tvars, nvars, yvars, lvars>>
vars == <<threads, cap, records, ppc, ppos, work, workQ, resQ, shutdown,
          wpc, witem, cpc, collected, pushCnt, popCnt, resCnt,
          hstate, arcOf, strong, destroyed, mapped, uad,
          idxSrc, astrong, num_alignments, waln, alnOf, evars>>

Workers == 1..threads
Ids == 1..Len(records)
Handles == 0..MaxClones

----------------------------------------------------------------------------
\* crossbeam ArrayQueue

\* a queue that grows instead of refusing the item
QPushUnbounded(q, c, item) == [ok |-> TRUE, q |-> Append(q, item), back |-> 0]

\* ArrayQueue::push: Ok(()) and the item appended, or Err(item) when full
QPush(q, c, item) ==
    IF Len(q) < c
    THEN [ok |-> TRUE, q |-> Append(q, item), back |-> 0]
    ELSE [ok |-> FALSE, q |-> q, back |-> item]

\* ArrayQueue::pop: Some(head) or None (0)
QPop(q) ==
    IF Len(q) > 0
    THEN [item |-> Head(q), q |-> Tail(q)]
    ELSE [item |-> 0, q |-> q]

\* ArrayQueue::is_empty
QIsEmpty(q) == Len(q) = 0

\* Aligner::map on a Built aligner: Err only for an empty sequence
AlignOk(i) == records[i]

\* JoinHandle::is_finished of the producer and of every worker
AllFinished ==
    /\ ppc = "done"
    /\ \A w \in Workers : wpc[w] \in {"done", "panicked"}

\* mm_map's n_regs for record i: the number of mappings in its result
NRegs(i) == i

\* A target file as set_index sees it: path contains NUL, file exists, length 0
IdxSources ==
    {[nul |-> TRUE, exists |-> FALSE, empty |-> FALSE],
     [nul |-> FALSE, exists |-> FALSE, empty |-> FALSE],
     [nul |-> FALSE, exists |-> TRUE, empty |-> TRUE],
     [nul |-> FALSE, exists |-> TRUE, empty |-> FALSE]}

GoodIdxSource == [nul |-> FALSE, exists |-> TRUE, empty |-> FALSE]

\* Aligner::set_index(path, None): the checks made before the index is read
SetIndex(src) ==
    IF src.nul THEN "Invalid Path for Index"
    ELSE IF ~src.exists THEN "Index File does not exist"
    ELSE IF src.empty THEN "Index File is empty"
    ELSE "Ok"

\* The output argument of set_index: None, a name, a name containing NUL
Outputs == {"None", "Some", "SomeNul"}

\* a set_index that looks for the file before it validates the path
SetIndexOutExistsFirst(src, out) ==
    IF ~src.exists THEN "Index File does not exist"
    ELSE IF src.nul THEN "Invalid Path for Index"
    ELSE IF src.empty THEN "Index File is empty"
    ELSE IF out = "SomeNul" THEN "Invalid Output for Index"
    ELSE "Ok"

\* Aligner::set_index(path, output): every check made before the index is read
SetIndexOut(src, out) ==
    IF src.nul THEN "Invalid Path for Index"
    ELSE IF ~src.exists THEN "Index File does not exist"
    ELSE IF src.empty THEN "Index File is empty"
    ELSE IF out = "SomeNul" THEN "Invalid Output for Index"
    ELSE "Ok"

\* worker threads that hold their clone of the Arc<Aligner<Built>>
Running == {w \in Workers : wpc[w] \notin {"unspawned", "done", "panicked"}}

InitIdxIdle ==
    /\ hstate = [h \in Handles |-> "none"]
    /\ arcOf = [h \in Handles |-> 0]
    /\ strong = [a \in Handles |-> 0]
    /\ destroyed = 0
    /\ mapped = [h \in Handles |-> 0]
    /\ uad = FALSE

\* no aligner value under construction
InitBuilderIdle ==
    /\ bst = "none"
    /\ bpresets = <<>>
    /\ bclip = FALSE
    /\ bidx = FALSE
    /\ nforeign = 0
    /\ berr = ""
    /\ bsrc = GoodIdxSource
    /\ bout = "None"
    /\ bmaps = 0

\* option structs nobody has touched
InitFlagsIdle ==
    /\ mflag = {}
    /\ iflag = {}
    /\ fop = "none"
    /\ fword = "map"
    /\ fflag = "MM_F_CIGAR"

\* a built index nobody is using
InitSharedIdle ==
    /\ top = <<>>
    /\ ixjj = FALSE
    /\ ixspsc = FALSE
    /\ ixwrites = 0
    /\ race = FALSE
    /\ tbuf = <<>>
    /\ tinits = <<>>
    /\ tdestroys = <<>>
    /\ tused = {}

\* no channel and no sender threads
InitSendIdle ==
    /\ mpc = "idle"
    /\ alignments = <<>>
    /\ spc = <<>>
    /\ sres = <<>>
    /\ chan = <<>>
    /\ nsenders = 0
    /\ rpc = "unspawned"
    /\ ret = <<>>

\* the Python binding's map has not been called
InitPyIdle ==
    /\ ythreads = 1
    /\ ycap = 1
    /\ yseqs = <<>>
    /\ ywork = 0
    /\ ywpc = <<>>
    /\ ywitem = <<>>
    /\ yq = <<>>
    /\ ycpc = "idle"
    /\ ycollected = <<>>
    /\ yfinished = 0
    /\ ydelivered = <<>>
    /\ ypopped = <<>>

\* kt_pipeline has not been called
InitKtIdle ==
    /\ kn = 0
    /\ ksteps = 1
    /\ kindex = 0
    /\ kstep = <<>>
    /\ kidx = <<>>
    /\ kdata = <<>>
    /\ kpc = <<>>
    /\ kholder = 0
    /\ kin = <<>>
    /\ kret = <<>>
    /\ kleft = 0
    /\ khist = {}
    /\ kassigned = <<>>

\* no action has reached the MappingResultStore
InitStoreIdle ==
    /\ mstore = <<>>
    /\ mcontent = <<>>
    /\ mtask = <<>>
    /\ mid = <<>>
    /\ mheld = <<>>
    /\ mdpc = "off"
    /\ mdid = ""
    /\ mnsel = 0
    /\ mui = 0

\* the QuerySequencesStore has not been built
InitQueryIdle ==
    /\ qlen = 0
    /\ qcurrent = 0
    /\ qchan = <<>>
    /\ qpanic = FALSE

\* main of fakeminimap2 has not started its threads
InitMainIdle ==
    /\ gcap = 1
    /\ gnw = 0
    /\ gwork = <<>>
    /\ gres = <<>>
    /\ gnext = 0
    /\ gwpc = <<>>
    /\ gwitem = <<>>
    /\ galigned = {}
    /\ gcounted = {}

\* Aligner::map has not been called
InitMapIdle ==
    /\ aidx = FALSE
    /\ amapflag = {}
    /\ amaxfrag = 0
    /\ amaps = 0
    /\ acalls = 0
    /\ aseq = "none"
    /\ aret = "none"
    /\ aopt = <<>>

\* the dispatcher of fakeminimap2 has not been started
InitRouteIdle ==
    /\ dchan = <<>>
    /\ dsent = 0
    /\ dnq = 0
    /\ dstop = "off"
    /\ dlog = {}

InitLateIdle ==
    /\ InitKtIdle
    /\ InitStoreIdle
    /\ InitQueryIdle
    /\ InitMainIdle
    /\ InitMapIdle
    /\ InitRouteIdle

InitExtIdle ==
    /\ InitBuilderIdle
    /\ InitFlagsIdle
    /\ InitSharedIdle
    /\ InitSendIdle
    /\ InitPyIdle
    /\ InitLateIdle

\* State of map after the queues are built and all threads are spawned
Init ==
    /\ threads \in 1..MaxThreads
    /\ cap \in 1..MaxCap
    /\ records \in UNION {[1..n -> BOOLEAN] : n \in 0..MaxRecords}
    /\ ppc = "read"
    /\ ppos = 0
    /\ work = 0
    /\ workQ = <<>>
    /\ resQ = <<>>
    /\ shutdown = FALSE
    /\ wpc = [w \in 1..threads |-> "pop"]
    /\ witem = [w \in 1..threads |-> 0]
    /\ cpc = "pop"
    /\ collected = [i \in 1..Len(records) |-> 0]
    /\ pushCnt = [i \in 1..Len(records) |-> 0]
    /\ popCnt = [i \in 1..Len(records) |-> 0]
    /\ resCnt = [i \in 1..Len(records) |-> 0]
    /\ InitIdxIdle
    /\ InitExtIdle
    /\ idxSrc = GoodIdxSource
    /\ astrong = 1 + threads
    /\ num_alignments = 0
    /\ waln = [w \in 1..threads |-> 0]
    /\ alnOf = [i \in 1..Len(records) |-> 0]

----------------------------------------------------------------------------
\* Producer thread

\* a producer that raises the flag as soon as it has read the last record
P_ReadStoreEarly ==
    /\ ppc = "read"
    /\ IF ppos < Len(records)
       THEN /\ ppos' = ppos + 1
            /\ work' = ppos + 1
            /\ ppc' = "push"
            /\ shutdown' = (ppos + 1 = Len(records))
       ELSE /\ ppc' = "store"
            /\ UNCHANGED <<ppos, work, shutdown>>
    /\ UNCHANGED <<threads, cap, records, workQ, resQ, wpc, witem,
                   cpc, collected, pushCnt, popCnt, resCnt>>
    /\ UNCHANGED ivars
    /\ UNCHANGED evars
    /\ UNCHANGED xvars

\* a producer that ends without storing the flag
P_ReadNoStore ==
    /\ ppc = "read"
    /\ IF ppos < Len(records)
       THEN /\ ppos' = ppos + 1
            /\ work' = ppos + 1
            /\ ppc' = "push"
       ELSE /\ ppc' = "done"
            /\ UNCHANGED <<ppos, work>>
    /\ UNCHANGED <<threads, cap, records, workQ, resQ, shutdown, wpc, witem,
                   cpc, collected, pushCnt, popCnt, resCnt>>
    /\ UNCHANGED ivars
    /\ UNCHANGED evars
    /\ UNCHANGED xvars

\* reader.next(): the next record becomes the WorkItem, or the loop ends
P_Read ==
    /\ ppc = "read"
    /\ IF ppos < Len(records)
       THEN /\ ppos' = ppos + 1
            /\ work' = ppos + 1
            /\ ppc' = "push"
       ELSE /\ ppc' = "store"
            /\ UNCHANGED <<ppos, work>>
    /\ UNCHANGED <<threads, cap, records, workQ, resQ, shutdown, wpc, witem,
                   cpc, collected, pushCnt, popCnt, resCnt>>
    /\ UNCHANGED ivars
    /\ UNCHANGED evars
    /\ UNCHANGED xvars

\* a push that gives up on a full queue and goes on to the next record
P_PushDropOnFull ==
    /\ ppc = "push"
    /\ LET r == QPush(workQ, cap, work) IN
       IF r.ok
       THEN /\ workQ' = r.q
            /\ pushCnt' = [pushCnt EXCEPT ![work] = @ + 1]
       ELSE UNCHANGED <<workQ, pushCnt>>
    /\ work' = 0
    /\ ppc' = "read"
    /\ UNCHANGED <<threads, cap, records, ppos, resQ, shutdown, wpc, witem,
                   cpc, collected, popCnt, resCnt>>
    /\ UNCHANGED ivars
    /\ UNCHANGED evars
    /\ UNCHANGED xvars

\* work_queue.push(work); on Err the item comes back and is retried
P_Push ==
    /\ ppc = "push"
    /\ LET r == QPush(workQ, cap, work) IN
       IF r.ok
       THEN /\ workQ' = r.q
            /\ pushCnt' = [pushCnt EXCEPT ![work] = @ + 1]
            /\ work' = 0
            /\ ppc' = "read"
       ELSE /\ work' = r.back
            /\ UNCHANGED <<workQ, pushCnt, ppc>>
    /\ UNCHANGED <<threads, cap, records, ppos, resQ, shutdown, wpc, witem,
                   cpc, collected, popCnt, resCnt>>
    /\ UNCHANGED ivars
    /\ UNCHANGED evars
    /\ UNCHANGED xvars

\* shutdown.store(true), then the thread ends
P_Store ==
    /\ ppc = "store"
    /\ shutdown' = TRUE
    /\ ppc' = "done"
    /\ UNCHANGED <<threads, cap, records, ppos, work, workQ, resQ, wpc, witem,
                   cpc, collected, pushCnt, popCnt, resCnt>>
    /\ UNCHANGED ivars
    /\ UNCHANGED evars
    /\ UNCHANGED xvars

Producer == P_Read \/ P_Push \/ P_Store

----------------------------------------------------------------------------
\* Worker threads

\* work_queue.pop()
W_Pop(w) ==
    /\ wpc[w] = "pop"
    /\ LET r == QPop(workQ) IN
       IF r.item # 0
       THEN /\ workQ' = r.q
            /\ witem' = [witem EXCEPT ![w] = r.item]
            /\ popCnt' = [popCnt EXCEPT ![r.item] = @ + 1]
            /\ wpc' = [wpc EXCEPT ![w] = "map"]
       ELSE /\ wpc' = [wpc EXCEPT ![w] = "load"]
            /\ UNCHANGED <<workQ, witem, popCnt>>
    /\ UNCHANGED <<threads, cap, records, ppc, ppos, work, resQ, shutdown,
                   cpc, collected, pushCnt, resCnt>>
    /\ UNCHANGED ivars
    /\ UNCHANGED evars
    /\ UNCHANGED xvars

\* a worker whose alignment comes out of a buffer shared by all workers:
\* it holds the alignment of the newest item any worker has popped
W_MapSharedBuf(w) ==
    /\ wpc[w] = "map"
    /\ IF AlignOk(witem[w])
       THEN /\ wpc' = [wpc EXCEPT ![w] = "push"]
            /\ waln' = [waln EXCEPT ![w] =
                           CHOOSE j \in {witem[v] : v \in Workers} :
                               \A k \in {witem[v] : v \in Workers} : k <= j]
            /\ UNCHANGED <<witem, astrong>>
       ELSE /\ wpc' = [wpc EXCEPT ![w] = "panicked"]
            /\ witem' = [witem EXCEPT ![w] = 0]
            /\ astrong' = astrong - 1
            /\ UNCHANGED waln
    /\ UNCHANGED <<threads, cap, records, ppc, ppos, work, workQ, resQ,
                   shutdown, cpc, collected, pushCnt, popCnt, resCnt>>
    /\ UNCHANGED ivars
    /\ UNCHANGED evars
    /\ UNCHANGED <<idxSrc, num_alignments, alnOf>>

\* aligner.map(..).expect("Unable to align"), then the result is built
W_Map(w) ==
    /\ wpc[w] = "map"
    /\ IF AlignOk(witem[w])
       THEN /\ wpc' = [wpc EXCEPT ![w] = "push"]
            /\ waln' = [waln EXCEPT ![w] = witem[w]]
            /\ UNCHANGED <<witem, astrong>>
       ELSE /\ wpc' = [wpc EXCEPT ![w] = "panicked"]
            /\ witem' = [witem EXCEPT ![w] = 0]
            /\ astrong' = astrong - 1
            /\ UNCHANGED waln
    /\ UNCHANGED <<threads, cap, records, ppc, ppos, work, workQ, resQ,
                   shutdown, cpc, collected, pushCnt, popCnt, resCnt>>
    /\ UNCHANGED ivars
    /\ UNCHANGED evars
    /\ UNCHANGED <<idxSrc, num_alignments, alnOf>>

\* a push that gives up on a full queue and goes back to popping work
W_PushDropOnFull(w) ==
    /\ wpc[w] = "push"
    /\ LET r == QPush(resQ, cap, witem[w]) IN
       IF r.ok
       THEN /\ resQ' = r.q
            /\ resCnt' = [resCnt EXCEPT ![witem[w]] = @ + 1]
            /\ alnOf' = [alnOf EXCEPT ![witem[w]] = waln[w]]
       ELSE UNCHANGED <<resQ, resCnt, alnOf>>
    /\ witem' = [witem EXCEPT ![w] = 0]
    /\ waln' = [waln EXCEPT ![w] = 0]
    /\ wpc' = [wpc EXCEPT ![w] = "pop"]
    /\ UNCHANGED <<threads, cap, records, ppc, ppos, work, workQ, shutdown,
                   cpc, collected, pushCnt, popCnt>>
    /\ UNCHANGED ivars
    /\ UNCHANGED evars
    /\ UNCHANGED <<idxSrc, astrong, num_alignments>>

\* results_queue.push(result); on Err the result comes back and is retried
W_Push(w) ==
    /\ wpc[w] = "push"
    /\ LET r == QPush(resQ, cap, witem[w]) IN
       IF r.ok
       THEN /\ resQ' = r.q
            /\ resCnt' = [resCnt EXCEPT ![witem[w]] = @ + 1]
            /\ alnOf' = [alnOf EXCEPT ![witem[w]] = waln[w]]
            /\ witem' = [witem EXCEPT ![w] = 0]
            /\ waln' = [waln EXCEPT ![w] = 0]
            /\ wpc' = [wpc EXCEPT ![w] = "pop"]
       ELSE /\ witem' = [witem EXCEPT ![w] = r.back]
            /\ UNCHANGED <<resQ, resCnt, wpc, waln, alnOf>>
    /\ UNCHANGED <<threads, cap, records, ppc, ppos, work, workQ, shutdown,
                   cpc, collected, pushCnt, popCnt>>
    /\ UNCHANGED ivars
    /\ UNCHANGED evars
    /\ UNCHANGED <<idxSrc, astrong, num_alignments>>

\* a worker that breaks on the shutdown flag alone
W_LoadShutdownOnly(w) ==
    /\ wpc[w] = "load"
    /\ wpc' = [wpc EXCEPT ![w] = IF shutdown THEN "done" ELSE "pop"]
    /\ astrong' = IF wpc'[w] = "done" THEN astrong - 1 ELSE astrong
    /\ UNCHANGED <<threads, cap, records, ppc, ppos, work, workQ, resQ,
                   shutdown, witem, cpc, collected, pushCnt, popCnt, resCnt>>
    /\ UNCHANGED ivars
    /\ UNCHANGED evars
    /\ UNCHANGED <<idxSrc, num_alignments, waln, alnOf>>

\* after pop returned None: shutdown.load(), left operand of &&
W_Load(w) ==
    /\ wpc[w] = "load"
    /\ wpc' = [wpc EXCEPT ![w] = IF shutdown THEN "empty" ELSE "pop"]
    /\ UNCHANGED <<threads, cap, records, ppc, ppos, work, workQ, resQ,
                   shutdown, witem, cpc, collected, pushCnt, popCnt, resCnt>>
    /\ UNCHANGED ivars
    /\ UNCHANGED evars
    /\ UNCHANGED xvars

\* a worker that breaks whatever is_empty returns
W_IsEmptyIgnored(w) ==
    /\ wpc[w] = "empty"
    /\ wpc' = [wpc EXCEPT ![w] = "done"]
    /\ astrong' = IF wpc'[w] = "done" THEN astrong - 1 ELSE astrong
    /\ UNCHANGED <<threads, cap, records, ppc, ppos, work, workQ, resQ,
                   shutdown, witem, cpc, collected, pushCnt, popCnt, resCnt>>
    /\ UNCHANGED ivars
    /\ UNCHANGED evars
    /\ UNCHANGED <<idxSrc, num_alignments, waln, alnOf>>

\* work_queue.is_empty(), right operand of &&; break when both hold
W_IsEmpty(w) ==
    /\ wpc[w] = "empty"
    /\ wpc' = [wpc EXCEPT ![w] = IF QIsEmpty(workQ) THEN "done" ELSE "pop"]
    /\ astrong' = IF wpc'[w] = "done" THEN astrong - 1 ELSE astrong
    /\ UNCHANGED <<threads, cap, records, ppc, ppos, work, workQ, resQ,
                   shutdown, witem, cpc, collected, pushCnt, popCnt, resCnt>>
    /\ UNCHANGED ivars
    /\ UNCHANGED evars
    /\ UNCHANGED <<idxSrc, num_alignments, waln, alnOf>>

Worker(w) == W_Pop(w) \/ W_Map(w) \/ W_Push(w) \/ W_Load(w) \/ W_IsEmpty(w)

----------------------------------------------------------------------------
\* Collector loop of map

\* a collector that assigns the length of the popped result to the total
C_PopOverwrite ==
    /\ cpc = "pop"
    /\ LET r == QPop(resQ) IN
       IF r.item # 0
       THEN /\ resQ' = r.q
            /\ collected' = [collected EXCEPT ![r.item] = @ + 1]
            /\ num_alignments' = NRegs(r.item)
            /\ UNCHANGED cpc
       ELSE /\ cpc' = "check"
            /\ UNCHANGED <<resQ, collected, num_alignments>>
    /\ UNCHANGED <<threads, cap, records, ppc, ppos, work, workQ, shutdown,
                   wpc, witem, pushCnt, popCnt, resCnt>>
    /\ UNCHANGED ivars
    /\ UNCHANGED evars
    /\ UNCHANGED <<idxSrc, astrong, waln, alnOf>>

\* results_queue.pop(): Some(result) is counted, None goes to the check
C_Pop ==
    /\ cpc = "pop"
    /\ LET r == QPop(resQ) IN
       IF r.item # 0
       THEN /\ resQ' = r.q
            /\ collected' = [collected EXCEPT ![r.item] = @ + 1]
            /\ num_alignments' = num_alignments + NRegs(r.item)
            /\ UNCHANGED cpc
       ELSE /\ cpc' = "check"
            /\ UNCHANGED <<resQ, collected, num_alignments>>
    /\ UNCHANGED <<threads, cap, records, ppc, ppos, work, workQ, shutdown,
                   wpc, witem, pushCnt, popCnt, resCnt>>
    /\ UNCHANGED ivars
    /\ UNCHANGED evars
    /\ UNCHANGED <<idxSrc, astrong, waln, alnOf>>

\* if jh.iter().all(|h| h.is_finished()) { break }
C_Check ==
    /\ cpc = "check"
    /\ cpc' = IF AllFinished THEN "join" ELSE "pop"
    /\ UNCHANGED <<threads, cap, records, ppc, ppos, work, workQ, resQ,
                   shutdown, wpc, witem, collected, pushCnt, popCnt, resCnt>>
    /\ UNCHANGED ivars
    /\ UNCHANGED evars
    /\ UNCHANGED xvars

\* handle.join().expect("Unable to join thread") for every handle, Ok(())
C_Join ==
    /\ cpc = "join"
    /\ cpc' = IF \E w \in Workers : wpc[w] = "panicked"
              THEN "panicked" ELSE "returned"
    /\ UNCHANGED <<threads, cap, records, ppc, ppos, work, workQ, resQ,
                   shutdown, wpc, witem, collected, pushCnt, popCnt, resCnt>>
    /\ UNCHANGED ivars
    /\ UNCHANGED evars
    /\ UNCHANGED xvars

Collector == C_Pop \/ C_Check \/ C_Join

Next == Producer \/ (\E w \in Workers : Worker(w)) \/ Collector

Spec == Init /\ [][Next]_vars

\* Every thread that can take a step eventually takes one (OS scheduling)
FairSpec ==
    /\ Spec
    /\ WF_vars(Producer)
    /\ \A w \in 1..MaxThreads : WF_vars(w \in Workers /\ Worker(w))
    /\ WF_vars(Collector)

----------------------------------------------------------------------------
\* The whole of map, from the index build on

\* State at the entry of map(target_file, query_file, threads)
InitRun ==
    /\ threads \in 0..MaxThreads
    /\ cap \in 1..MaxCap
    /\ records \in UNION {[1..n -> BOOLEAN] : n \in 0..MaxRunRecords}
    /\ idxSrc \in IdxSources
    /\ ppc = "unspawned"
    /\ ppos = 0
    /\ work = 0
    /\ workQ = <<>>
    /\ resQ = <<>>
    /\ shutdown = FALSE
    /\ wpc = [w \in 1..threads |-> "unspawned"]
    /\ witem = [w \in 1..threads |-> 0]
    /\ cpc = "build"
    /\ collected = [i \in 1..Len(records) |-> 0]
    /\ pushCnt = [i \in 1..Len(records) |-> 0]
    /\ popCnt = [i \in 1..Len(records) |-> 0]
    /\ resCnt = [i \in 1..Len(records) |-> 0]
    /\ InitIdxIdle
    /\ InitExtIdle
    /\ astrong = 0
    /\ num_alignments = 0
    /\ waln = [w \in 1..threads |-> 0]
    /\ alnOf = [i \in 1..Len(records) |-> 0]

\* a build whose error is ignored, so that spawning goes on without an index
M_BuildIgnoreErr ==
    /\ cpc = "build"
    /\ cpc' = "spawn"
    /\ astrong' = 1
    /\ UNCHANGED <<threads, cap, records, ppc, ppos, work, workQ, resQ,
                   shutdown, wpc, witem, collected, pushCnt, popCnt, resCnt>>
    /\ UNCHANGED ivars
    /\ UNCHANGED evars
    /\ UNCHANGED <<idxSrc, num_alignments, waln, alnOf>>

\* Aligner::builder()..with_index(target_file, None).expect(..), then the
\* queues, the flag and Arc::new(aligner)
M_Build ==
    /\ cpc = "build"
    /\ IF SetIndex(idxSrc) = "Ok"
       THEN /\ cpc' = "spawn"
            /\ astrong' = 1
       ELSE /\ cpc' = "build_panicked"
            /\ UNCHANGED astrong
    /\ UNCHANGED <<threads, cap, records, ppc, ppos, work, workQ, resQ,
                   shutdown, wpc, witem, collected, pushCnt, popCnt, resCnt>>
    /\ UNCHANGED ivars
    /\ UNCHANGED evars
    /\ UNCHANGED <<idxSrc, num_alignments, waln, alnOf>>

\* a spawn that hands the worker a handle without raising the count
M_SpawnWorkerNoClone ==
    /\ cpc = "spawn"
    /\ \E w \in Workers :
          /\ wpc[w] = "unspawned"
          /\ \A v \in Workers : v < w => wpc[v] # "unspawned"
          /\ wpc' = [wpc EXCEPT ![w] = "pop"]
    /\ UNCHANGED <<threads, cap, records, ppc, ppos, work, workQ, resQ,
                   shutdown, witem, cpc, collected, pushCnt, popCnt, resCnt>>
    /\ UNCHANGED ivars
    /\ UNCHANGED evars
    /\ UNCHANGED xvars

\* one iteration of for _ in 0..threads: Arc::clone(&aligner), thread::spawn
M_SpawnWorker ==
    /\ cpc = "spawn"
    /\ \E w \in Workers :
          /\ wpc[w] = "unspawned"
          /\ \A v \in Workers : v < w => wpc[v] # "unspawned"
          /\ wpc' = [wpc EXCEPT ![w] = "pop"]
    /\ astrong' = astrong + 1
    /\ UNCHANGED <<threads, cap, records, ppc, ppos, work, workQ, resQ,
                   shutdown, witem, cpc, collected, pushCnt, popCnt, resCnt>>
    /\ UNCHANGED ivars
    /\ UNCHANGED evars
    /\ UNCHANGED <<idxSrc, num_alignments, waln, alnOf>>

\* after the loop: the producer thread is spawned and the collector loop starts
M_SpawnProducer ==
    /\ cpc = "spawn"
    /\ \A w \in Workers : wpc[w] # "unspawned"
    /\ ppc' = "read"
    /\ cpc' = "pop"
    /\ UNCHANGED <<threads, cap, records, ppos, work, workQ, resQ,
                   shutdown, wpc, witem, collected, pushCnt, popCnt, resCnt>>
    /\ UNCHANGED ivars
    /\ UNCHANGED evars
    /\ UNCHANGED xvars

NextRun == M_Build \/ M_SpawnWorker \/ M_SpawnProducer \/ Next

SpecRun == InitRun /\ [][NextRun]_vars

----------------------------------------------------------------------------
\* Shared index handle: Aligner<Built> { idx: Option<Arc<MmIdx>>, .. }
\* Handle 0 is the aligner returned by with_index, the others are its clones;
\* every handle may sit on its own thread, so their steps interleave freely.

LiveHandles == {h \in Handles : hstate[h] = "live"}

\* the next unused handle slot
FreshHandle == CHOOSE n \in Handles :
                  hstate[n] = "none" /\ \A m \in Handles : m < n => hstate[m] # "none"

\* State after set_index returned Ok: one handle, one Arc with strong = 1
InitIdx ==
    /\ threads = 1
    /\ cap = 1
    /\ records = <<>>
    /\ ppc = "read"
    /\ ppos = 0
    /\ work = 0
    /\ workQ = <<>>
    /\ resQ = <<>>
    /\ shutdown = FALSE
    /\ wpc = [w \in 1..1 |-> "pop"]
    /\ witem = [w \in 1..1 |-> 0]
    /\ cpc = "pop"
    /\ collected = <<>>
    /\ pushCnt = <<>>
    /\ popCnt = <<>>
    /\ resCnt = <<>>
    /\ hstate = [h \in Handles |-> IF h = 0 THEN "live" ELSE "none"]
    /\ arcOf = [h \in Handles |-> 0]
    /\ strong = [a \in Handles |-> IF a = 0 THEN 1 ELSE 0]
    /\ destroyed = 0
    /\ mapped = [h \in Handles |-> 0]
    /\ uad = FALSE
    /\ InitExtIdle
    /\ idxSrc = GoodIdxSource
    /\ astrong = 0
    /\ num_alignments = 0
    /\ waln = [w \in 1..1 |-> 0]
    /\ alnOf = <<>>

\* a clone that wraps the same foreign pointer in an Arc of its own
AlignerCloneOwnArc(h) ==
    /\ hstate[h] = "live"
    /\ \E n \in Handles : hstate[n] = "none"
    /\ LET n == FreshHandle IN
       /\ hstate' = [hstate EXCEPT ![n] = "live"]
       /\ arcOf' = [arcOf EXCEPT ![n] = n]
       /\ strong' = [strong EXCEPT ![n] = 1]
    /\ UNCHANGED <<destroyed, mapped, uad>>
    /\ UNCHANGED pvars
    /\ UNCHANGED evars
    /\ UNCHANGED xvars

\* a clone that copies the pointer and leaves the count alone
AlignerCloneNoCount(h) ==
    /\ hstate[h] = "live"
    /\ \E n \in Handles : hstate[n] = "none"
    /\ LET n == FreshHandle IN
       /\ hstate' = [hstate EXCEPT ![n] = "live"]
       /\ arcOf' = [arcOf EXCEPT ![n] = arcOf[h]]
    /\ UNCHANGED <<strong, destroyed, mapped, uad>>
    /\ UNCHANGED pvars
    /\ UNCHANGED evars
    /\ UNCHANGED xvars

\* #[derive(Clone)] on Aligner: idx is cloned as an Arc, so the clone points
\* to the same allocation and the strong count goes up by one
AlignerClone(h) ==
    /\ hstate[h] = "live"
    /\ \E n \in Handles : hstate[n] = "none"
    /\ LET n == FreshHandle IN
       /\ hstate' = [hstate EXCEPT ![n] = "live"]
       /\ arcOf' = [arcOf EXCEPT ![n] = arcOf[h]]
       /\ strong' = [strong EXCEPT ![arcOf[h]] = @ + 1]
    /\ UNCHANGED <<destroyed, mapped, uad>>
    /\ UNCHANGED pvars
    /\ UNCHANGED evars
    /\ UNCHANGED xvars

\* Aligner::map through a live handle: mm_map reads the index behind idx;
\* mapped records the strong count the handle sees afterwards
AlignerMap(h) ==
    /\ hstate[h] = "live"
    /\ mapped' = [mapped EXCEPT ![h] = strong[arcOf[h]]]
    /\ uad' = (uad \/ destroyed > 0)
    /\ UNCHANGED <<hstate, arcOf, strong, destroyed>>
    /\ UNCHANGED pvars
    /\ UNCHANGED evars
    /\ UNCHANGED xvars

\* a handle is dropped: the strong count is decremented atomically and only
\* the thread that took it from 1 to 0 goes on to drop the MmIdx
AlignerDrop(h) ==
    /\ hstate[h] = "live"
    /\ strong' = [strong EXCEPT ![arcOf[h]] = @ - 1]
    /\ hstate' = [hstate EXCEPT ![h] =
                    IF strong[arcOf[h]] = 1 THEN "destroying" ELSE "dropped"]
    /\ UNCHANGED <<arcOf, destroyed, mapped, uad>>
    /\ UNCHANGED pvars
    /\ UNCHANGED evars
    /\ UNCHANGED xvars

\* drop of the index value: mm_idx_destroy
IdxDestroy(h) ==
    /\ hstate[h] = "destroying"
    /\ destroyed' = destroyed + 1
    /\ hstate' = [hstate EXCEPT ![h] = "dropped"]
    /\ UNCHANGED <<arcOf, strong, mapped, uad>>
    /\ UNCHANGED pvars
    /\ UNCHANGED evars
    /\ UNCHANGED xvars

NextIdx ==
    \E h \in Handles :
        AlignerClone(h) \/ AlignerMap(h) \/ AlignerDrop(h) \/ IdxDestroy(h)

SpecIdx == InitIdx /\ [][NextIdx]_vars

----------------------------------------------------------------------------
\* The aligner builder: Aligner<Unset> -> Aligner<PresetSet> -> Aligner<Built>

MaxPresets == 2
nonbvars == <<pvars, ivars, xvars, fvars, svars, tvars, nvars, yvars, lvars>>
MaxMaps == 2

\* Preset values handed to mm_set_opt
Presets == {"map-ont", "sr"}

\* no pipeline running: map of examples/channels.rs has not been entered
InitPipeIdle ==
    /\ threads = 0
    /\ cap = 1
    /\ records = <<>>
    /\ ppc = "unspawned"
    /\ ppos = 0
    /\ work = 0
    /\ workQ = <<>>
    /\ resQ = <<>>
    /\ shutdown = FALSE
    /\ wpc = <<>>
    /\ witem = <<>>
    /\ cpc = "build"
    /\ collected = <<>>
    /\ pushCnt = <<>>
    /\ popCnt = <<>>
    /\ resCnt = <<>>
    /\ idxSrc = GoodIdxSource
    /\ astrong = 0
    /\ num_alignments = 0
    /\ waln = <<>>
    /\ alnOf = <<>>

InitBuilder ==
    /\ InitPipeIdle
    /\ InitIdxIdle
    /\ InitBuilderIdle
    /\ InitFlagsIdle
    /\ InitSharedIdle
    /\ InitSendIdle
    /\ InitPyIdle
    /\ InitLateIdle

\* Aligner::builder(): default options, mm_set_opt(0), state Unset
B_Builder ==
    /\ bst = "none"
    /\ bst' = "Unset"
    /\ UNCHANGED <<bpresets, bclip, bidx, nforeign, berr, bsrc, bout, bmaps>>
    /\ UNCHANGED nonbvars

\* Aligner<Unset>::preset (and lrhq, splice, .., map_ont, ..): options are
\* reset with mm_set_opt(0), the preset is applied, the state is PresetSet
B_Preset(p) ==
    /\ bst = "Unset"
    /\ bst' = "PresetSet"
    /\ bpresets' = <<p>>
    /\ UNCHANGED <<bclip, bidx, nforeign, berr, bsrc, bout, bmaps>>
    /\ UNCHANGED nonbvars

\* additional_preset (impl<S: BuilderState + AcceptsParams>): mm_set_opt with
\* the preset on top of the present options, the state is kept
B_AdditionalPreset(p) ==
    /\ bst \in {"Unset", "PresetSet"}
    /\ Len(bpresets) < MaxPresets
    /\ bpresets' = Append(bpresets, p)
    /\ UNCHANGED <<bst, bclip, bidx, nforeign, berr, bsrc, bout, bmaps>>
    /\ UNCHANGED nonbvars

\* a setter that is also implemented for Aligner<Built>
B_WithCigarClippingAnyState ==
    /\ bst \in {"Unset", "PresetSet", "Built"}
    /\ bclip' = TRUE
    /\ UNCHANGED <<bst, bpresets, bidx, nforeign, berr, bsrc, bout, bmaps>>
    /\ UNCHANGED nonbvars

\* with_cigar_clipping (impl<S: BuilderState + AcceptsParams>)
B_WithCigarClipping ==
    /\ bst \in {"Unset", "PresetSet"}
    /\ bclip' = TRUE
    /\ UNCHANGED <<bst, bpresets, bidx, nforeign, berr, bsrc, bout, bmaps>>
    /\ UNCHANGED nonbvars

\* with_index / set_index (impl<S: BuilderState + AcceptsParams>): self is
\* consumed; Err before the reader is opened, or the index is read and wrapped
B_WithIndex(src, out) ==
    /\ bst \in {"Unset", "PresetSet"}
    /\ bsrc' = src
    /\ bout' = out
    /\ IF SetIndexOut(src, out) = "Ok"
       THEN /\ bst' = "Built"
            /\ bidx' = TRUE
            /\ nforeign' = nforeign + 1
            /\ UNCHANGED berr
       ELSE /\ bst' = "failed"
            /\ berr' = SetIndexOut(src, out)
            /\ UNCHANGED <<bidx, nforeign>>
    /\ UNCHANGED <<bpresets, bclip, bmaps>>
    /\ UNCHANGED nonbvars

\* with_seq / with_seq_and_id / with_seqs_and_ids with one non-empty sequence
\* and id: assert!(self.idx.is_none()), mm_idx_str, state Built
B_WithSeq ==
    /\ bst \in {"Unset", "PresetSet"}
    /\ IF bidx
       THEN /\ bst' = "panicked"
            /\ UNCHANGED <<bidx, nforeign>>
       ELSE /\ bst' = "Built"
            /\ bidx' = TRUE
            /\ nforeign' = nforeign + 1
    /\ UNCHANGED <<bpresets, bclip, berr, bsrc, bout, bmaps>>
    /\ UNCHANGED nonbvars

\* Aligner<Built>::map(&self, ..)
B_Map ==
    /\ bst = "Built"
    /\ bmaps < MaxMaps
    /\ bmaps' = bmaps + 1
    /\ UNCHANGED <<bst, bpresets, bclip, bidx, nforeign, berr, bsrc, bout>>
    /\ UNCHANGED nonbvars

NextBuilder ==
    \/ B_Builder
    \/ \E p \in Presets : B_Preset(p)
    \/ \E p \in Presets : B_AdditionalPreset(p)
    \/ B_WithCigarClipping
    \/ \E src \in IdxSources, out \in Outputs : B_WithIndex(src, out)
    \/ B_WithSeq
    \/ B_Map

SpecBuilder == InitBuilder /\ [][NextBuilder]_vars

----------------------------------------------------------------------------
\* Flag methods generated by add_flag_methods! (minimap2-sys)

nonfvars == <<pvars, ivars, xvars, bvars, svars, tvars, nvars, yvars, lvars>>

\* Some of the flags of mm_mapopt_t and the flags of mm_idxopt_t
MapFlags == {"MM_F_CIGAR", "MM_F_NO_QUAL", "MM_F_NO_HASH_NAME",
             "MM_F_SPLICE_OLD", "MM_F_OUT_DS"}
IdxFlags == {"MM_I_HPC", "MM_I_NO_SEQ", "MM_I_NO_NAME"}

\* Position of the one-bit of each flag constant
FlagBit(x) ==
    CASE x = "MM_F_CIGAR" -> 2
      [] x = "MM_F_NO_QUAL" -> 4
      [] x = "MM_F_NO_HASH_NAME" -> 30
      [] x = "MM_F_SPLICE_OLD" -> 35
      [] x = "MM_F_OUT_DS" -> 37
      [] x = "MM_I_HPC" -> 0
      [] x = "MM_I_NO_SEQ" -> 1
      [] x = "MM_I_NO_NAME" -> 2

\* Width of the constant's type: bindgen with default settings declares a
\* macro constant u32 when its value fits and u64 otherwise
ConstWidth(x) == IF FlagBit(x) < 32 THEN 32 ELSE 64

\* Width of the flag field: i64 for mm_mapopt_t, c_short for mm_idxopt_t
WordWidth(word) == IF word = "map" THEN 64 ELSE 16

\* `!v` on an unsigned value of the given width
BitNot(bits, width) == (0..(width - 1)) \ bits

\* `v as $ty` from an unsigned type: truncation, or zero extension
CastTo(bits, width) == bits \cap (0..(width - 1))

\* self.flag |= $flag as $ty
SetFlag(flag, x, word) == flag \cup CastTo({FlagBit(x)}, WordWidth(word))

\* self.flag &= !$flag as $ty, which is (!$flag) as $ty
UnsetFlag(flag, x, word) ==
    flag \cap CastTo(BitNot({FlagBit(x)}, ConstWidth(x)), WordWidth(word))

\* option structs with any of the modelled flags set
InitFlags ==
    /\ InitPipeIdle
    /\ InitIdxIdle
    /\ InitBuilderIdle
    /\ InitSharedIdle
    /\ InitSendIdle
    /\ InitPyIdle
    /\ InitLateIdle
    /\ mflag \in SUBSET {FlagBit(x) : x \in MapFlags}
    /\ iflag \in SUBSET {FlagBit(x) : x \in IdxFlags}
    /\ fop = "none"
    /\ fword = "map"
    /\ fflag = "MM_F_CIGAR"

\* mm_mapopt_t::set_X
F_Set(x) ==
    /\ mflag' = SetFlag(mflag, x, "map")
    /\ fop' = "set" /\ fword' = "map" /\ fflag' = x
    /\ UNCHANGED iflag
    /\ UNCHANGED nonfvars

\* mm_mapopt_t::unset_X
F_Unset(x) ==
    /\ mflag' = UnsetFlag(mflag, x, "map")
    /\ fop' = "unset" /\ fword' = "map" /\ fflag' = x
    /\ UNCHANGED iflag
    /\ UNCHANGED nonfvars

\* mm_idxopt_t::set_X
FI_Set(x) ==
    /\ iflag' = SetFlag(iflag, x, "idx")
    /\ fop' = "set" /\ fword' = "idx" /\ fflag' = x
    /\ UNCHANGED mflag
    /\ UNCHANGED nonfvars

\* mm_idxopt_t::unset_X
FI_Unset(x) ==
    /\ iflag' = UnsetFlag(iflag, x, "idx")
    /\ fop' = "unset" /\ fword' = "idx" /\ fflag' = x
    /\ UNCHANGED mflag
    /\ UNCHANGED nonfvars

NextFlags ==
    \/ \E x \in MapFlags : F_Set(x)
    \/ \E x \in MapFlags : F_Unset(x)
    \/ \E x \in IdxFlags : FI_Set(x)
    \/ \E x \in IdxFlags : FI_Unset(x)

SpecFlags == InitFlags /\ [][NextFlags]_vars

----------------------------------------------------------------------------
\* Threads calling the &self methods of one Aligner<Built>
\* (unsafe impl Sync for Aligner<Built>)

MaxSharers == 2
MaxIdxWrites == 2

nonsvars == <<pvars, ivars, xvars, bvars, fvars, nvars, yvars, lvars>>


Sharers == 1..MaxSharers

\* methods that only read the index
ReadOps == {"map", "n_seq", "get_seq", "score_junctions"}

\* methods that hand the index to the C library as *mut mm_idx_t to load
\* data into it
WriteOps == {"read_junction", "read_pass1", "read_splice_scores"}

InitShared ==
    /\ InitPipeIdle
    /\ InitIdxIdle
    /\ InitBuilderIdle
    /\ InitFlagsIdle
    /\ InitSendIdle
    /\ InitPyIdle
    /\ InitLateIdle
    /\ top = [t \in Sharers |-> "idle"]
    /\ ixjj = FALSE
    /\ ixspsc = FALSE
    /\ ixwrites = 0
    /\ race = FALSE
    /\ tbuf = [t \in Sharers |-> "none"]
    /\ tinits = [t \in Sharers |-> 0]
    /\ tdestroys = [t \in Sharers |-> 0]
    /\ tused = {}

\* a map whose buffer is one static shared by all threads (owned by thread 1)
UseBufGlobal(t) ==
    /\ tbuf' = [tbuf EXCEPT ![1] = "live"]
    /\ tinits' = [tinits EXCEPT ![1] = IF tbuf[1] = "none" THEN @ + 1 ELSE @]
    /\ tused' = tused \cup {<<t, 1>>}
    /\ UNCHANGED tdestroys

\* BUF.with_borrow_mut(|buf| .. mm_map(.., buf.get_buf(), ..)): the first
\* access on a thread runs ThreadLocalBuffer::new (mm_tbuf_init), later ones
\* find the value; mm_map gets that thread's buffer
UseBuf(t) ==
    /\ tbuf' = [tbuf EXCEPT ![t] = "live"]
    /\ tinits' = [tinits EXCEPT ![t] = IF tbuf[t] = "none" THEN @ + 1 ELSE @]
    /\ tused' = tused \cup {<<t, t>>}
    /\ UNCHANGED tdestroys

\* the thread ends: the destructor of its BUF runs if the value was created
\* (Drop for ThreadLocalBuffer: mm_tbuf_destroy)
DropBuf(t) ==
    /\ tbuf' = [tbuf EXCEPT ![t] = IF @ = "live" THEN "destroyed" ELSE @]
    /\ tdestroys' = [tdestroys EXCEPT ![t] = IF tbuf[t] = "live" THEN @ + 1 ELSE @]
    /\ UNCHANGED <<tinits, tused>>

\* thread t enters a method through its shared reference; nothing is locked
Sh_Begin(t, op) ==
    /\ top[t] = "idle"
    /\ op \in WriteOps => ixwrites < MaxIdxWrites
    /\ top' = [top EXCEPT ![t] = op]
    /\ race' = (race \/ \E u \in Sharers \ {t} :
                            /\ top[u] \notin {"idle", "exited"}
                            /\ op \in WriteOps \/ top[u] \in WriteOps)
    /\ IF op = "map" THEN UseBuf(t) ELSE UNCHANGED tvars
    /\ UNCHANGED <<ixjj, ixspsc, ixwrites>>
    /\ UNCHANGED nonsvars

\* the method returns: read_junction and read_pass1 have loaded the BED file
\* into the index when mm_idx_jjump_read returned 0, read_splice_scores has
\* set idx.spsc when the file could be read; the other methods wrote nothing
Sh_End(t, ok) ==
    /\ top[t] \notin {"idle", "exited"}
    /\ top' = [top EXCEPT ![t] = "idle"]
    /\ IF top[t] \in {"read_junction", "read_pass1"} /\ ok
       THEN /\ ixjj' = TRUE
            /\ ixwrites' = ixwrites + 1
            /\ UNCHANGED ixspsc
       ELSE IF top[t] = "read_splice_scores" /\ ok
       THEN /\ ixspsc' = TRUE
            /\ ixwrites' = ixwrites + 1
            /\ UNCHANGED ixjj
       ELSE UNCHANGED <<ixjj, ixspsc, ixwrites>>
    /\ UNCHANGED race
    /\ UNCHANGED tvars
    /\ UNCHANGED nonsvars

\* the closure of thread t returns and the thread ends
Sh_Exit(t) ==
    /\ top[t] = "idle"
    /\ top' = [top EXCEPT ![t] = "exited"]
    /\ DropBuf(t)
    /\ UNCHANGED <<ixjj, ixspsc, ixwrites, race>>
    /\ UNCHANGED nonsvars

NextShared ==
    \/ \E t \in Sharers, op \in ReadOps \cup WriteOps : Sh_Begin(t, op)
    \/ \E t \in Sharers, ok \in BOOLEAN : Sh_End(t, ok)
    \/ \E t \in Sharers : Sh_Exit(t)

SpecShared == InitShared /\ [][NextShared]_vars

----------------------------------------------------------------------------
\* test_send: two threads map through Arc clones of one Built aligner and
\* send their batch over an mpsc channel to a receiver thread

nonnvars == <<pvars, ivars, xvars, bvars, fvars, yvars, lvars>>

Senders == 1..2

\* Aligner::map of the test's query: determined by the content of the index
MapResult == [jj |-> ixjj, spsc |-> ixspsc]

InitSend ==
    /\ InitPipeIdle
    /\ InitIdxIdle
    /\ InitBuilderIdle
    /\ InitFlagsIdle
    /\ InitPyIdle
    /\ InitLateIdle
    /\ top = <<>>
    /\ ixjj \in BOOLEAN
    /\ ixspsc \in BOOLEAN
    /\ ixwrites = 0
    /\ race = FALSE
    /\ tbuf = [t \in 0..2 |-> "none"]
    /\ tinits = [t \in 0..2 |-> 0]
    /\ tdestroys = [t \in 0..2 |-> 0]
    /\ tused = {}
    /\ mpc = "map"
    /\ alignments = <<>>
    /\ spc = [t \in Senders |-> "unspawned"]
    /\ sres = [t \in Senders |-> <<>>]
    /\ chan = <<>>
    /\ nsenders = 0
    /\ rpc = "unspawned"
    /\ ret = <<>>

\* let alignments = aligner.map(..).unwrap()
T_MainMap ==
    /\ mpc = "map"
    /\ alignments' = <<MapResult>>
    /\ UseBuf(0)
    /\ mpc' = "spawn_receiver"
    /\ UNCHANGED <<spc, sres, chan, nsenders, rpc, ret>>
    /\ UNCHANGED <<svars, nonnvars>>

\* mpsc::channel() and the spawn of the receiver thread
T_SpawnReceiver ==
    /\ mpc = "spawn_receiver"
    /\ nsenders' = 1
    /\ rpc' = "recv"
    /\ mpc' = "spawn_sender"
    /\ UNCHANGED <<alignments, spc, sres, chan, ret>>
    /\ UNCHANGED <<svars, tvars, nonnvars>>

\* send.clone(), aligner.clone() and the spawn of the first sender
T_SpawnSender ==
    /\ mpc = "spawn_sender"
    /\ nsenders' = nsenders + 1
    /\ spc' = [spc EXCEPT ![1] = "map"]
    /\ mpc' = "spawn_new_sender"
    /\ UNCHANGED <<alignments, sres, chan, rpc, ret>>
    /\ UNCHANGED <<svars, tvars, nonnvars>>

\* the second sender takes send and aligner themselves
T_SpawnNewSender ==
    /\ mpc = "spawn_new_sender"
    /\ spc' = [spc EXCEPT ![2] = "map"]
    /\ mpc' = "join"
    /\ UNCHANGED <<alignments, sres, chan, nsenders, rpc, ret>>
    /\ UNCHANGED <<svars, tvars, nonnvars>>

\* receiver.join().unwrap() and the three assert_eq!
T_Join ==
    /\ mpc = "join"
    /\ rpc = "returned"
    /\ mpc' = IF /\ Len(ret) = 2
                 /\ <<ret[1]>> = alignments
                 /\ <<ret[2]>> = alignments
              THEN "passed"
              ELSE "assert_failed"
    /\ UNCHANGED <<alignments, spc, sres, chan, nsenders, rpc, ret>>
    /\ UNCHANGED <<svars, tvars, nonnvars>>

\* a sender: new_aligner.map(..).expect("Failed to map")
S_Map(t) ==
    /\ spc[t] = "map"
    /\ sres' = [sres EXCEPT ![t] = <<MapResult>>]
    /\ UseBuf(t)
    /\ spc' = [spc EXCEPT ![t] = "send"]
    /\ UNCHANGED <<mpc, alignments, chan, nsenders, rpc, ret>>
    /\ UNCHANGED <<svars, nonnvars>>

\* a sender: send(..).expect("Failed to send"); Err when the receiver is gone
S_Send(t) ==
    /\ spc[t] = "send"
    /\ IF rpc # "returned"
       THEN /\ chan' = Append(chan, sres[t][1])
            /\ spc' = [spc EXCEPT ![t] = "exit"]
       ELSE /\ spc' = [spc EXCEPT ![t] = "panicked"]
            /\ UNCHANGED chan
    /\ UNCHANGED <<mpc, alignments, sres, nsenders, rpc, ret>>
    /\ UNCHANGED <<svars, tvars, nonnvars>>

\* a sender thread that ends with its Sender still alive
S_ExitKeepSender(t) ==
    /\ spc[t] = "exit"
    /\ spc' = [spc EXCEPT ![t] = "done"]
    /\ DropBuf(t)
    /\ UNCHANGED <<mpc, alignments, sres, chan, nsenders, rpc, ret>>
    /\ UNCHANGED <<svars, nonnvars>>

\* the sender's closure returns: its Sender and its Arc are dropped and the
\* thread ends
S_Exit(t) ==
    /\ spc[t] = "exit"
    /\ spc' = [spc EXCEPT ![t] = "done"]
    /\ nsenders' = nsenders - 1
    /\ DropBuf(t)
    /\ UNCHANGED <<mpc, alignments, sres, chan, rpc, ret>>
    /\ UNCHANGED <<svars, nonnvars>>

\* receiver: recv() returns Ok(batch)
R_Recv ==
    /\ rpc = "recv"
    /\ chan # <<>>
    /\ ret' = Append(ret, Head(chan))
    /\ chan' = Tail(chan)
    /\ UNCHANGED <<mpc, alignments, spc, sres, nsenders, rpc>>
    /\ UNCHANGED <<svars, tvars, nonnvars>>

\* receiver: recv() returns Err once the channel is empty and every Sender
\* is dropped; the loop ends and the thread returns ret
R_Disconnected ==
    /\ rpc = "recv"
    /\ chan = <<>>
    /\ nsenders = 0
    /\ rpc' = "returned"
    /\ UNCHANGED <<mpc, alignments, spc, sres, chan, nsenders, ret>>
    /\ UNCHANGED <<svars, tvars, nonnvars>>

Building == T_MainMap \/ T_SpawnReceiver \/ T_SpawnSender \/ T_SpawnNewSender \/ T_Join
Sender(t) == S_Map(t) \/ S_Send(t) \/ S_Exit(t)
Receiver == R_Recv \/ R_Disconnected

NextSend == Building \/ (\E t \in Senders : Sender(t)) \/ Receiver

SpecSend == InitSend /\ [][NextSend]_vars

\* every thread of the test that can take a step eventually takes one
FairSpecSend ==
    /\ SpecSend
    /\ WF_vars(Building)
    /\ \A t \in Senders : WF_vars(Sender(t))
    /\ WF_vars(Receiver)

----------------------------------------------------------------------------
\* The Python binding: the multithreaded branch of Aligner::map
\* (minimappers2/src/lib.rs)

MaxPyThreads == 3
MaxPyCap == 2
MaxPySeqs == 2

nonyvars == <<pvars, ivars, xvars, bvars, fvars, svars, tvars, nvars, lvars>>

\* for i in 0..(self.aligner.threads - 1)
PyWorkers == 1..(ythreads - 1)
PySeqs == 1..Len(yseqs)

\* State after the work list and results_queue are built and the workers are
\* spawned (threads = 1 takes the single-threaded branch)
InitPy ==
    /\ InitPipeIdle
    /\ InitIdxIdle
    /\ InitBuilderIdle
    /\ InitFlagsIdle
    /\ InitSharedIdle
    /\ InitSendIdle
    /\ InitLateIdle
    /\ ythreads \in 2..MaxPyThreads
    /\ ycap \in 1..MaxPyCap
    /\ yseqs \in UNION {[1..n -> BOOLEAN] : n \in 0..MaxPySeqs}
    /\ ywork = Len(yseqs)
    /\ ywpc = [w \in 1..(ythreads - 1) |-> "pop"]
    /\ ywitem = [w \in 1..(ythreads - 1) |-> 0]
    /\ yq = <<>>
    /\ ycpc = "pop"
    /\ ycollected = [i \in 1..Len(yseqs) |-> 0]
    /\ yfinished = 0
    /\ ydelivered = [w \in 1..(ythreads - 1) |-> 0]
    /\ ypopped = [i \in 1..Len(yseqs) |-> 0]

\* work_queue.lock().unwrap().pop(): the last sequence of the Vec, or None
Y_Pop(w) ==
    /\ ywpc[w] = "pop"
    /\ IF ywork > 0
       THEN /\ ywitem' = [ywitem EXCEPT ![w] = ywork]
            /\ ypopped' = [ypopped EXCEPT ![ywork] = @ + 1]
            /\ ywork' = ywork - 1
            /\ ywpc' = [ywpc EXCEPT ![w] = "map"]
       ELSE /\ ywpc' = [ywpc EXCEPT ![w] = "done"]
            /\ UNCHANGED <<ywitem, ypopped, ywork>>
    /\ UNCHANGED <<ythreads, ycap, yseqs, yq, ycpc, ycollected, yfinished,
                   ydelivered>>
    /\ UNCHANGED nonyvars

\* aligner.map(..).expect("Unable to align") and the query names
Y_Map(w) ==
    /\ ywpc[w] = "map"
    /\ IF yseqs[ywitem[w]]
       THEN /\ ywpc' = [ywpc EXCEPT ![w] = "push"]
            /\ UNCHANGED ywitem
       ELSE /\ ywpc' = [ywpc EXCEPT ![w] = "panicked"]
            /\ ywitem' = [ywitem EXCEPT ![w] = 0]
    /\ UNCHANGED <<ythreads, ycap, yseqs, ywork, yq, ycpc, ycollected,
                   yfinished, ydelivered, ypopped>>
    /\ UNCHANGED nonyvars

\* results_queue.push(WorkQueue::Work(result)); the Result of push is not
\* looked at, so on a full queue the result is dropped with the Err
Y_Push(w) ==
    /\ ywpc[w] = "push"
    /\ yq' = QPush(yq, ycap, ywitem[w]).q
    /\ ywitem' = [ywitem EXCEPT ![w] = 0]
    /\ ywpc' = [ywpc EXCEPT ![w] = "pop"]
    /\ UNCHANGED <<ythreads, ycap, yseqs, ywork, ycpc, ycollected, yfinished,
                   ydelivered, ypopped>>
    /\ UNCHANGED nonyvars

\* results_queue.push(WorkQueue::Done); break: the Result is not looked at
\* either
Y_PushDone(w) ==
    /\ ywpc[w] = "done"
    /\ yq' = QPush(yq, ycap, 0).q
    /\ ydelivered' = [ydelivered EXCEPT ![w] =
                         IF QPush(yq, ycap, 0).ok THEN @ + 1 ELSE @]
    /\ ywpc' = [ywpc EXCEPT ![w] = "exited"]
    /\ UNCHANGED <<ythreads, ycap, yseqs, ywork, ywitem, ycpc, ycollected,
                   yfinished, ypopped>>
    /\ UNCHANGED nonyvars

PyWorker(w) == Y_Pop(w) \/ Y_Map(w) \/ Y_Push(w) \/ Y_PushDone(w)

\* one iteration of the collector loop: results_queue.pop()
Y_CPop ==
    /\ ycpc = "pop"
    /\ IF yq = <<>>
       THEN /\ ycpc' = "sleep"
            /\ UNCHANGED <<yq, ycollected, yfinished>>
       ELSE /\ yq' = Tail(yq)
            /\ IF Head(yq) # 0
               THEN /\ ycollected' = [ycollected EXCEPT ![Head(yq)] = @ + 1]
                    /\ UNCHANGED <<yfinished, ycpc>>
               ELSE /\ yfinished' = yfinished + 1
                    /\ ycpc' = IF yfinished + 1 = ythreads - 1
                               THEN "join" ELSE "pop"
                    /\ UNCHANGED ycollected
    /\ UNCHANGED <<ythreads, ycap, yseqs, ywork, ywpc, ywitem, ydelivered,
                   ypopped>>
    /\ UNCHANGED nonyvars

\* None: thread::sleep(100 ms), then the next iteration
Y_CSleep ==
    /\ ycpc = "sleep"
    /\ ycpc' = "pop"
    /\ UNCHANGED <<ythreads, ycap, yseqs, ywork, ywpc, ywitem, yq, ycollected,
                   yfinished, ydelivered, ypopped>>
    /\ UNCHANGED nonyvars

\* for handle in thread_handles { handle.join().unwrap() }, then the frame
Y_Join ==
    /\ ycpc = "join"
    /\ \A w \in PyWorkers : ywpc[w] \in {"exited", "panicked"}
    /\ ycpc' = IF \E w \in PyWorkers : ywpc[w] = "panicked"
               THEN "panicked" ELSE "returned"
    /\ UNCHANGED <<ythreads, ycap, yseqs, ywork, ywpc, ywitem, yq, ycollected,
                   yfinished, ydelivered, ypopped>>
    /\ UNCHANGED nonyvars

PyCollector == Y_CPop \/ Y_CSleep \/ Y_Join

NextPy == (\E w \in PyWorkers : PyWorker(w)) \/ PyCollector

SpecPy == InitPy /\ [][NextPy]_vars

\* every thread of the binding that can take a step eventually takes one
FairSpecPy ==
    /\ SpecPy
    /\ \A w \in 1..(MaxPyThreads - 1) : WF_vars(w \in PyWorkers /\ PyWorker(w))
    /\ WF_vars(PyCollector)

----------------------------------------------------------------------------
\* kt_pipeline of minimap2-sys (src/rust_threads_index.rs): n_threads worker
\* threads carry items through n_steps steps of func.  A worker is "lock"
\* before shared.lock(), "test" when it holds the guard in the inner loop,
\* "wait" inside condvar.wait, "call" while func runs, "relock" before the
\* second shared.lock(), "update" when it holds that guard, and "exited"
\* after the break.

MaxKtThreads == 2
MaxKtSteps == 3
MaxKtItems == 3
nonkvars == <<pvars, ivars, xvars, bvars, fvars, svars, tvars, nvars, yvars,
              mvars,
              qvars,
              gvars,
              avars,
              dvars>>

KtWorkers == 1..kn

\* two distinct non-null pointers func can return
KtValues == {1, 2}

\* what a call of func at `step` may return: at step 0 data while the input
\* lasts and null afterwards, at every later step any pointer
KtReturns(step) ==
    IF step = 0 THEN (IF kleft > 0 THEN KtValues ELSE {0})
    ELSE {0} \cup KtValues

InitKt ==
    /\ InitPipeIdle
    /\ InitIdxIdle
    /\ InitBuilderIdle
    /\ InitFlagsIdle
    /\ InitSharedIdle
    /\ InitSendIdle
    /\ InitPyIdle
    /\ InitStoreIdle
    /\ InitQueryIdle
    /\ InitMainIdle
    /\ InitMapIdle
    /\ InitRouteIdle
    /\ kn \in 1..MaxKtThreads
    /\ ksteps \in 1..MaxKtSteps
    /\ kleft \in 0..MaxKtItems
    /\ kindex = kn
    /\ kstep = [w \in 1..kn |-> 0]
    /\ kidx = [w \in 1..kn |-> w - 1]
    /\ kdata = [w \in 1..kn |-> 0]
    /\ kpc = [w \in 1..kn |-> "lock"]
    /\ kholder = 0
    /\ kin = [w \in 1..kn |-> 0]
    /\ kret = [w \in 1..kn |-> 0]
    /\ khist = {}
    /\ kassigned = [i \in 1..kn |-> i - 1]

\* the closure of `all`: no other worker with a smaller index is at this
\* worker's step or an earlier one
CanProceed(w) ==
    \A o \in KtWorkers :
        o = w \/ ~(kstep[o] <= kstep[w] /\ kidx[o] < kidx[w])

\* shared.shared.lock() at the top of the outer loop, and the lock that
\* condvar.wait takes again before it returns
K_Lock(w) ==
    /\ kpc[w] = "lock"
    /\ kholder = 0
    /\ kholder' = w
    /\ kpc' = [kpc EXCEPT ![w] = "test"]
    /\ UNCHANGED <<kn, ksteps, kindex, kstep, kidx, kdata, kin, kret, kleft,
                   khist, kassigned>>
    /\ UNCHANGED nonkvars

\* the inner loop under the guard: wait on the condition variable, or read
\* func's input and drop the guard
K_TestAlwaysProceed(w) ==
    /\ kpc[w] = "test"
    /\ kholder = w
    /\ kholder' = 0
    /\ kin' = [kin EXCEPT ![w] = IF kstep[w] = 0 THEN 0 ELSE kdata[w]]
    /\ kpc' = [kpc EXCEPT ![w] = "call"]
    /\ UNCHANGED <<kn, ksteps, kindex, kstep, kidx, kdata, kret, kleft,
                   khist, kassigned>>
    /\ UNCHANGED nonkvars
K_Test(w) ==
    /\ kpc[w] = "test"
    /\ kholder = w
    /\ kholder' = 0
    /\ IF CanProceed(w)
       THEN /\ kin' = [kin EXCEPT ![w] = IF kstep[w] = 0 THEN 0 ELSE kdata[w]]
            /\ kpc' = [kpc EXCEPT ![w] = "call"]
       ELSE /\ kpc' = [kpc EXCEPT ![w] = "wait"]
            /\ UNCHANGED kin
    /\ UNCHANGED <<kn, ksteps, kindex, kstep, kidx, kdata, kret, kleft,
                   khist, kassigned>>
    /\ UNCHANGED nonkvars

\* Condvar::wait may return without a notification
K_Spurious(w) ==
    /\ kpc[w] = "wait"
    /\ kpc' = [kpc EXCEPT ![w] = "lock"]
    /\ UNCHANGED <<kn, ksteps, kindex, kstep, kidx, kdata, kholder, kin, kret,
                   kleft, khist, kassigned>>
    /\ UNCHANGED nonkvars

\* func(shared_ptr, step, input_data) runs and returns r
K_Call(w, r) ==
    /\ kpc[w] = "call"
    /\ r \in KtReturns(kstep[w])
    /\ kret' = [kret EXCEPT ![w] = r]
    /\ kleft' = IF kstep[w] = 0 /\ r # 0 THEN kleft - 1 ELSE kleft
    /\ khist' = khist \cup {<<kidx[w], kstep[w], r = 0>>}
    /\ kpc' = [kpc EXCEPT ![w] = "relock"]
    /\ UNCHANGED <<kn, ksteps, kindex, kstep, kidx, kdata, kholder, kin,
                   kassigned>>
    /\ UNCHANGED nonkvars

\* shared.shared.lock() after the call
K_Relock(w) ==
    /\ kpc[w] = "relock"
    /\ kholder = 0
    /\ kholder' = w
    /\ kpc' = [kpc EXCEPT ![w] = "update"]
    /\ UNCHANGED <<kn, ksteps, kindex, kstep, kidx, kdata, kin, kret, kleft,
                   khist, kassigned>>
    /\ UNCHANGED nonkvars

\* the step the worker moves to after a call that returned `data`
NextStepKeepGoing(step, data) == (step + 1) % ksteps
NextStep(step, data) ==
    IF step = ksteps - 1 \/ data # 0 THEN (step + 1) % ksteps ELSE ksteps

\* store data, advance step, take a fresh index at step 0, notify_all, then
\* break or go round the loop; the guard is dropped either way
K_Update(w) ==
    /\ kpc[w] = "update"
    /\ kholder = w
    /\ LET ns == NextStep(kstep[w], kret[w]) IN
        /\ ns = 0 => kindex < MaxKtThreads + MaxKtItems + 1
        /\ kdata' = [kdata EXCEPT ![w] = kret[w]]
        /\ kstep' = [kstep EXCEPT ![w] = ns]
        /\ IF ns = 0
           THEN /\ kidx' = [kidx EXCEPT ![w] = kindex]
                /\ kindex' = kindex + 1
                /\ kassigned' = Append(kassigned, kindex)
           ELSE UNCHANGED <<kidx, kindex, kassigned>>
        /\ kpc' = [o \in KtWorkers |->
                     IF o = w THEN (IF ns >= ksteps THEN "exited" ELSE "lock")
                     ELSE IF kpc[o] = "wait" THEN "lock"
                     ELSE kpc[o]]
    /\ kholder' = 0
    /\ UNCHANGED <<kn, ksteps, kin, kret, kleft, khist>>
    /\ UNCHANGED nonkvars

KtWorker(w) ==
    \/ K_Lock(w)
    \/ K_Test(w)
    \/ K_Spurious(w)
    \/ (\E r \in {0} \cup KtValues : K_Call(w, r))
    \/ K_Relock(w)
    \/ K_Update(w)

NextKt == \E w \in KtWorkers : KtWorker(w)

SpecKt == InitKt /\ [][NextKt]_vars

----------------------------------------------------------------------------
\* MappingResultStore of fakeminimap2 (src/state/mapping_results_store.rs).
\* `mappings` is a DashMap from id to Arc<Mutex<Vec<Mapping>>>: get and insert
\* are atomic one by one.  dispatch runs in the dispatcher task; every
\* AddMappings is handed to a task of its own (tokio::spawn), which runs
\* beside the dispatcher and the other tasks.  The k-th AddMappings carries
\* the mapping k.

MaxAdds == 3
MaxSelects == 2
nonmvars == <<pvars, ivars, xvars, bvars, fvars, svars, tvars, nvars, yvars,
              kvars,
              qvars,
              gvars,
              avars,
              dvars>>

StoreIds == {"q1", "q2"}
AddTasks == 1..MaxAdds

InitStore ==
    /\ InitPipeIdle
    /\ InitIdxIdle
    /\ InitBuilderIdle
    /\ InitFlagsIdle
    /\ InitSharedIdle
    /\ InitSendIdle
    /\ InitPyIdle
    /\ InitKtIdle
    /\ InitQueryIdle
    /\ InitMainIdle
    /\ InitMapIdle
    /\ InitRouteIdle
    /\ mstore = [i \in StoreIds |-> 0]
    /\ mcontent = <<>>
    /\ mtask = [k \in AddTasks |-> "unspawned"]
    /\ mid = [k \in AddTasks |-> "q1"]
    /\ mheld = [k \in AddTasks |-> 0]
    /\ mdpc = "idle"
    /\ mdid = "q1"
    /\ mnsel = 0
    /\ mui = 0

\* dispatch(AddMappings((id, mappings))): spawn the add_mappings task
D_AddMappings(id) ==
    /\ mdpc = "idle"
    /\ \E k \in AddTasks :
        /\ mtask[k] = "unspawned"
        /\ \A j \in 1..(k - 1) : mtask[j] # "unspawned"
        /\ mtask' = [mtask EXCEPT ![k] = "check"]
        /\ mid' = [mid EXCEPT ![k] = id]
    /\ UNCHANGED <<mstore, mcontent, mheld, mdpc, mdid, mnsel, mui>>
    /\ UNCHANGED nonmvars

\* dispatch(SetSelectedMappings(id)): self.mappings.get(&id).is_none()
D_SelCheck(id) ==
    /\ mdpc = "idle"
    /\ mnsel < MaxSelects
    /\ mdid' = id
    /\ mdpc' = IF mstore[id] = 0 THEN "insert" ELSE "send"
    /\ mnsel' = mnsel + 1
    /\ UNCHANGED <<mstore, mcontent, mtask, mid, mheld, mui>>
    /\ UNCHANGED nonmvars

\* insert(id, Arc::new(Mutex::new(Vec::new())))
D_SelInsert ==
    /\ mdpc = "insert"
    /\ mcontent' = Append(mcontent, {})
    /\ mstore' = [mstore EXCEPT ![mdid] = Len(mcontent) + 1]
    /\ mdpc' = "send"
    /\ UNCHANGED <<mtask, mid, mheld, mdid, mnsel, mui>>
    /\ UNCHANGED nonmvars

\* Arc::clone(&self.mappings.get(&id).unwrap()) and the send to the UI state
D_SelSend ==
    /\ mdpc = "send"
    /\ mui' = mstore[mdid]
    /\ mdpc' = "idle"
    /\ UNCHANGED <<mstore, mcontent, mtask, mid, mheld, mdid, mnsel>>
    /\ UNCHANGED nonmvars

\* add_mappings: self.mappings.get(&id).is_some()
A_Check(k) ==
    /\ mtask[k] = "check"
    /\ mtask' = [mtask EXCEPT ![k] = IF mstore[mid[k]] # 0 THEN "clone"
                                     ELSE "insert"]
    /\ UNCHANGED <<mstore, mcontent, mid, mheld, mdpc, mdid, mnsel, mui>>
    /\ UNCHANGED nonmvars

\* add_mappings, entry exists: Arc::clone(&self.mappings.get(&id).unwrap())
\* and the spawn of the task that extends it
A_Clone(k) ==
    /\ mtask[k] = "clone"
    /\ mheld' = [mheld EXCEPT ![k] = mstore[mid[k]]]
    /\ mtask' = [mtask EXCEPT ![k] = "extend"]
    /\ UNCHANGED <<mstore, mcontent, mid, mdpc, mdid, mnsel, mui>>
    /\ UNCHANGED nonmvars

\* the spawned task: lock the vector and extend it
A_Extend(k) ==
    /\ mtask[k] = "extend"
    /\ mcontent' = [mcontent EXCEPT ![mheld[k]] = @ \cup {k}]
    /\ mtask' = [mtask EXCEPT ![k] = "done"]
    /\ UNCHANGED <<mstore, mid, mheld, mdpc, mdid, mnsel, mui>>
    /\ UNCHANGED nonmvars

\* add_mappings, no entry seen: insert(id, Arc::new(Mutex::new(mapping)))
A_Insert(k) ==
    /\ mtask[k] = "insert"
    /\ mcontent' = Append(mcontent, {k})
    /\ mstore' = [mstore EXCEPT ![mid[k]] = Len(mcontent) + 1]
    /\ mtask' = [mtask EXCEPT ![k] = "done"]
    /\ UNCHANGED <<mid, mheld, mdpc, mdid, mnsel, mui>>
    /\ UNCHANGED nonmvars

StoreDispatch ==
    \/ (\E id \in StoreIds : D_AddMappings(id))
    \/ (\E id \in StoreIds : D_SelCheck(id))
    \/ D_SelInsert
    \/ D_SelSend

AddTask(k) == A_Check(k) \/ A_Clone(k) \/ A_Extend(k) \/ A_Insert(k)

NextStore == StoreDispatch \/ (\E k \in AddTasks : AddTask(k))

SpecStore == InitStore /\ [][NextStore]_vars

----------------------------------------------------------------------------
\* QuerySequencesStore of fakeminimap2 (src/state/query_sequences_store.rs)
\* with the senders of SetSelectedQuery: AppDisplay::handle_keypress and
\* handle_click (src/ui/app_display.rs) and the store's own keypress.  The
\* actions travel through the dispatcher's unbounded channel and are
\* dispatched one at a time, in the order sent.

MaxQueries == 2
MaxSelIndex == 3
MaxQChan == 2
nonqvars == <<pvars, ivars, xvars, bvars, fvars, svars, tvars, nvars, yvars,
              kvars, mvars,
              gvars,
              avars,
              dvars>>

InitQuery ==
    /\ InitPipeIdle
    /\ InitIdxIdle
    /\ InitBuilderIdle
    /\ InitFlagsIdle
    /\ InitSharedIdle
    /\ InitSendIdle
    /\ InitPyIdle
    /\ InitKtIdle
    /\ InitStoreIdle
    /\ InitMainIdle
    /\ InitMapIdle
    /\ InitRouteIdle
    /\ qlen = 0
    /\ qcurrent = 0
    /\ qchan = <<>>
    /\ qpanic = FALSE

\* dispatch(AddQuerySequence(query)): add_query_sequence pushes the query
Q_Add ==
    /\ ~qpanic
    /\ qlen < MaxQueries
    /\ qlen' = qlen + 1
    /\ UNCHANGED <<qcurrent, qchan, qpanic>>
    /\ UNCHANGED nonqvars

\* Home, End, PageUp, PageDown or a click: SetSelectedQuery(n) is sent with
\* an index computed from the display's own list state
Q_UiSelect(n) ==
    /\ ~qpanic
    /\ Len(qchan) < MaxQChan
    /\ qchan' = Append(qchan, [n |-> n, from |-> "ui"])
    /\ UNCHANGED <<qlen, qcurrent, qpanic>>
    /\ UNCHANGED nonqvars

\* keypress(Up): SetSelectedQuery(current - 1) if there is a previous entry
Q_KeyUp ==
    /\ ~qpanic
    /\ Len(qchan) < MaxQChan
    /\ qlen > 0 /\ qcurrent > 0
    /\ qchan' = Append(qchan, [n |-> qcurrent - 1, from |-> "key"])
    /\ UNCHANGED <<qlen, qcurrent, qpanic>>
    /\ UNCHANGED nonqvars

\* keypress(Down): SetSelectedQuery(current + 1) if there is a next entry
Q_KeyDown ==
    /\ ~qpanic
    /\ Len(qchan) < MaxQChan
    /\ qlen > 0 /\ qcurrent < qlen - 1
    /\ qchan' = Append(qchan, [n |-> qcurrent + 1, from |-> "key"])
    /\ UNCHANGED <<qlen, qcurrent, qpanic>>
    /\ UNCHANGED nonqvars

\* dispatch(SetSelectedQuery(n)): set_current(n), then query_sequences[current].
\* With an empty list `len() - 1` overflows: the build with overflow checks
\* panics there and leaves current alone; the build without them wraps, stores
\* n in current and panics at query_sequences[n].
Q_SetSelected ==
    /\ ~qpanic
    /\ qchan # <<>>
    /\ qchan' = Tail(qchan)
    /\ LET n == Head(qchan).n IN
        IF qlen = 0
        THEN /\ qpanic' = TRUE
             /\ qcurrent' \in {qcurrent, n}
        ELSE /\ qcurrent' = IF n < qlen - 1 THEN n ELSE qlen - 1
             /\ UNCHANGED qpanic
    /\ UNCHANGED qlen
    /\ UNCHANGED nonqvars

NextQuery ==
    \/ Q_Add
    \/ (\E n \in 0..MaxSelIndex : Q_UiSelect(n))
    \/ Q_KeyUp
    \/ Q_KeyDown
    \/ Q_SetSelected

SpecQuery == InitQuery /\ [][NextQuery]_vars

----------------------------------------------------------------------------
\* main of fakeminimap2 (src/main.rs): a feeder thread that pushes the
\* sequences onto work_queue over and over, worker threads that pop, align
\* and push onto results_queue, and the collector loop of the main thread.
\* Every push the feeder attempts is numbered; the numbers identify the work
\* items and the alignments computed from them.

MaxMainCap == 2
MaxMainWorkers == 2
MaxFeeds == 3
nongvars == <<pvars, ivars, xvars, bvars, fvars, svars, tvars, nvars, yvars,
              kvars, mvars, qvars,
              avars,
              dvars>>

MainWorkers == 1..gnw

InitMain ==
    /\ InitPipeIdle
    /\ InitIdxIdle
    /\ InitBuilderIdle
    /\ InitFlagsIdle
    /\ InitSharedIdle
    /\ InitSendIdle
    /\ InitPyIdle
    /\ InitKtIdle
    /\ InitStoreIdle
    /\ InitQueryIdle
    /\ InitMapIdle
    /\ InitRouteIdle
    /\ gcap \in 1..MaxMainCap
    /\ gnw \in 1..MaxMainWorkers
    /\ gwork = <<>>
    /\ gres = <<>>
    /\ gnext = 0
    /\ gwpc = [w \in 1..gnw |-> "pop"]
    /\ gwitem = [w \in 1..gnw |-> 0]
    /\ galigned = {}
    /\ gcounted = {}

\* feeder: wq.push(WorkQueue::Work(seq.clone())); on Err sleep 1 ms and go on
\* with the next sequence
G_Feed ==
    /\ gnext < MaxFeeds
    /\ gnext' = gnext + 1
    /\ gwork' = IF Len(gwork) < gcap THEN Append(gwork, gnext + 1) ELSE gwork
    /\ UNCHANGED <<gcap, gnw, gres, gwpc, gwitem, galigned, gcounted>>
    /\ UNCHANGED nongvars

\* worker: work_queue.pop() gave Some(Work(sequence)); on None the worker
\* snoozes and pops again
G_Pop(w) ==
    /\ gwpc[w] = "pop"
    /\ gwork # <<>>
    /\ gwitem' = [gwitem EXCEPT ![w] = Head(gwork)]
    /\ gwork' = Tail(gwork)
    /\ gwpc' = [gwpc EXCEPT ![w] = "map"]
    /\ UNCHANGED <<gcap, gnw, gres, gnext, galigned, gcounted>>
    /\ UNCHANGED nongvars

\* worker: aligner.map(..).expect("Unable to align")
G_Map(w) ==
    /\ gwpc[w] = "map"
    /\ galigned' = galigned \cup {gwitem[w]}
    /\ gwpc' = [gwpc EXCEPT ![w] = "push"]
    /\ UNCHANGED <<gcap, gnw, gwork, gres, gnext, gwitem, gcounted>>
    /\ UNCHANGED nongvars

\* worker: results_queue.push(WorkQueue::Result(alignment)); on Err snooze and
\* go round the loop
G_Push(w) ==
    /\ gwpc[w] = "push"
    /\ gres' = IF Len(gres) < gcap THEN Append(gres, gwitem[w]) ELSE gres
    /\ gwitem' = [gwitem EXCEPT ![w] = 0]
    /\ gwpc' = [gwpc EXCEPT ![w] = "pop"]
    /\ UNCHANGED <<gcap, gnw, gwork, gnext, galigned, gcounted>>
    /\ UNCHANGED nongvars

\* collector: results_queue.pop() gave Some(Result(_)), num_alignments += 1;
\* on None it sleeps and pops again
G_Collect ==
    /\ gres # <<>>
    /\ gcounted' = gcounted \cup {Head(gres)}
    /\ gres' = Tail(gres)
    /\ UNCHANGED <<gcap, gnw, gwork, gnext, gwpc, gwitem, galigned>>
    /\ UNCHANGED nongvars

MainWorker(w) == G_Pop(w) \/ G_Map(w) \/ G_Push(w)

NextMain == G_Feed \/ (\E w \in MainWorkers : MainWorker(w)) \/ G_Collect

SpecMain == InitMain /\ [][NextMain]_vars

----------------------------------------------------------------------------
\* Aligner::map (src/lib.rs) called on one thread: the two checks at its
\* head, the local copy of mapopt, the thread-local buffer and the foreign
\* call.  query_name is None or well formed.

MaxMapCalls == 2
nonavars == <<pvars, ivars, xvars, bvars, fvars, svars, nvars, yvars,
              kvars, mvars, qvars, gvars,
              dvars>>

\* flags of the aligner's mapopt and of extra_flags
MapOptFlags == {"MM_F_CIGAR", "MM_F_OUT_CS"}

\* values of max_frag_len; the argument is None (0 here) or Some
MaxFragLens == {0, 800}

\* the calling thread
MapThread == 1

InitMap ==
    /\ InitPipeIdle
    /\ InitIdxIdle
    /\ InitBuilderIdle
    /\ InitFlagsIdle
    /\ InitSendIdle
    /\ InitPyIdle
    /\ InitKtIdle
    /\ InitStoreIdle
    /\ InitQueryIdle
    /\ InitMainIdle
    /\ InitRouteIdle
    /\ top = <<>>
    /\ ixjj = FALSE
    /\ ixspsc = FALSE
    /\ ixwrites = 0
    /\ race = FALSE
    /\ tbuf = [t \in {MapThread} |-> "none"]
    /\ tinits = [t \in {MapThread} |-> 0]
    /\ tdestroys = [t \in {MapThread} |-> 0]
    /\ tused = {}
    /\ aidx \in BOOLEAN
    /\ amapflag \in SUBSET MapOptFlags
    /\ amaxfrag \in {100, 800}
    /\ amaps = 0
    /\ acalls = 0
    /\ aseq = "none"
    /\ aret = "none"
    /\ aopt = <<>>

\* has_index
HasIndex == aidx

\* map(seq, .., max_frag_len, extra_flags, ..): the index check, the sequence
\* check, then the copy of mapopt with the arguments applied, the buffer of
\* the calling thread and mm_map
A_MapSeqFirst(seq, mfl, extra) ==
    /\ amaps < MaxMapCalls
    /\ amaps' = amaps + 1
    /\ aseq' = seq
    /\ IF seq = "empty"
       THEN /\ aret' = "Sequence is empty"
            /\ UNCHANGED <<acalls, aopt, tvars>>
       ELSE IF ~HasIndex
       THEN /\ aret' = "No index"
            /\ UNCHANGED <<acalls, aopt, tvars>>
       ELSE /\ aopt' = [flag |-> amapflag \cup extra,
                        max_frag_len |-> IF mfl = 0 THEN amaxfrag ELSE mfl]
            /\ UseBuf(MapThread)
            /\ acalls' = acalls + 1
            /\ aret' = "Ok"
    /\ UNCHANGED <<aidx, amapflag, amaxfrag>>
    /\ UNCHANGED nonavars
A_Map(seq, mfl, extra) ==
    /\ amaps < MaxMapCalls
    /\ amaps' = amaps + 1
    /\ aseq' = seq
    /\ IF ~HasIndex
       THEN /\ aret' = "No index"
            /\ UNCHANGED <<acalls, aopt, tvars>>
       ELSE IF seq = "empty"
       THEN /\ aret' = "Sequence is empty"
            /\ UNCHANGED <<acalls, aopt, tvars>>
       ELSE /\ aopt' = [flag |-> amapflag \cup extra,
                        max_frag_len |-> IF mfl = 0 THEN amaxfrag ELSE mfl]
            /\ UseBuf(MapThread)
            /\ acalls' = acalls + 1
            /\ aret' = "Ok"
    /\ UNCHANGED <<aidx, amapflag, amaxfrag>>
    /\ UNCHANGED nonavars

NextMap ==
    \E seq \in {"empty", "acgt"}, mfl \in MaxFragLens,
       extra \in SUBSET MapOptFlags : A_Map(seq, mfl, extra)

SpecMap == InitMap /\ [][NextMap]_vars

----------------------------------------------------------------------------
\* The dispatcher of fakeminimap2: start_dispatcher (src/state.rs) receives
\* the actions one at a time and passes each to the store that
\* Action::target_store (src/datatypes.rs) names; the dispatch functions of
\* the stores are those of src/state/*.rs.  The pipeline (src/channels.rs)
\* and the UI (src/ui/app_display.rs) send the first actions, the stores
\* send further ones while they handle theirs.  Payloads are left out
\* except for the number of query sequences.

MaxSends == 3
nondvars == <<pvars, ivars, xvars, bvars, fvars, svars, tvars, nvars, yvars,
              kvars, mvars, qvars, gvars, avars>>

\* the variants of Action
Actions == {"AddQuerySequence", "SetSelectedQuery", "SetSelectedMappings",
            "AddMappings", "UpdateUiStateSelectQuerySequence",
            "UpdateUiStateSelectMappings", "UpdateUiStateSelectMapping",
            "UpdateUiStateQuerySequencesList", "SetStatus", "UpdatedUiState",
            "KeyPress"}

\* Action::target_store
TargetStoreOf(a) ==
    CASE a \in {"AddQuerySequence", "SetSelectedQuery"} -> "QuerySequences"
      [] a \in {"SetSelectedMappings", "AddMappings"} -> "MappingResults"
      [] a \in {"UpdateUiStateSelectQuerySequence",
                "UpdateUiStateSelectMappings", "UpdateUiStateSelectMapping",
                "SetStatus", "UpdateUiStateQuerySequencesList"} -> "UiState"
      [] a = "UpdatedUiState" -> "Ui"
      [] a = "KeyPress" -> "Dispatcher"

\* the variants the dispatch of a store has an arm for; every other variant
\* falls into its `_ => unimplemented!(..)`
StoreHandles(store, a) ==
    CASE store = "QuerySequences" ->
            a \in {"AddQuerySequence", "SetSelectedQuery"}
      [] store = "MappingResults" ->
            a \in {"SetSelectedMappings", "AddMappings"}
      [] store = "UiState" ->
            a \in {"UpdateUiStateSelectQuerySequence",
                   "UpdateUiStateSelectMapping",
                   "UpdateUiStateQuerySequencesList",
                   "UpdateUiStateSelectMappings", "SetStatus"}

\* actions the pipeline sends (SetStatus, AddQuerySequence, AddMappings) and
\* actions the UI sends (SetSelectedQuery, KeyPress)
ExternalActions == {"SetStatus", "AddQuerySequence", "AddMappings",
                    "SetSelectedQuery", "KeyPress"}

\* what the arm of a store's dispatch sends on dispatcher_tx for action a
SentBy(a) ==
    CASE a = "AddQuerySequence" -> <<"UpdateUiStateQuerySequencesList">>
      [] a = "SetSelectedQuery" ->
            <<"UpdateUiStateSelectQuerySequence", "SetSelectedMappings">>
      [] a = "SetSelectedMappings" -> <<"UpdateUiStateSelectMappings">>
      [] a = "AddMappings" -> <<>>
      [] a = "UpdateUiStateSelectMapping" ->
            <<"UpdateUiStateSelectMapping", "UpdatedUiState">>
      [] a = "SetStatus" -> <<"UpdatedUiState", "UpdatedUiState">>
      [] a \in {"UpdateUiStateSelectQuerySequence",
                "UpdateUiStateQuerySequencesList",
                "UpdateUiStateSelectMappings"} -> <<"UpdatedUiState">>

InitRoute ==
    /\ InitPipeIdle
    /\ InitIdxIdle
    /\ InitBuilderIdle
    /\ InitFlagsIdle
    /\ InitSharedIdle
    /\ InitSendIdle
    /\ InitPyIdle
    /\ InitKtIdle
    /\ InitStoreIdle
    /\ InitQueryIdle
    /\ InitMainIdle
    /\ InitMapIdle
    /\ dchan = <<>>
    /\ dsent = 0
    /\ dnq = 0
    /\ dstop = "none"
    /\ dlog = {}

\* the pipeline or the UI sends an action
D_Send(a) ==
    /\ dstop = "none"
    /\ dsent < MaxSends
    /\ dsent' = dsent + 1
    /\ dchan' = Append(dchan, a)
    /\ UNCHANGED <<dnq, dstop, dlog>>
    /\ UNCHANGED nondvars

\* dispatch of the store: the arm for action a, or unimplemented!
StoreDispatchArm(store, a) ==
    IF ~StoreHandles(store, a)
    THEN /\ dstop' = store
         /\ dchan' = Tail(dchan)
         /\ UNCHANGED dnq
    ELSE IF a = "SetSelectedQuery" /\ dnq = 0
    THEN /\ dstop' = "index"
         /\ dchan' = Tail(dchan)
         /\ UNCHANGED dnq
    ELSE /\ dchan' = Tail(dchan) \o SentBy(a)
         /\ dnq' = IF a = "AddQuerySequence" THEN dnq + 1 ELSE dnq
         /\ UNCHANGED dstop

\* one round of the loop of start_dispatcher: recv, match on target_store
D_Recv ==
    /\ dstop = "none"
    /\ dchan # <<>>
    /\ LET a == Head(dchan)
           t == TargetStoreOf(a)
       IN CASE t = "QuerySequences" ->
                  /\ StoreDispatchArm(t, a)
                  /\ dlog' = dlog \cup {<<a, t>>}
            [] t = "MappingResults" ->
                  /\ dstop' = "Soon"
                  /\ dchan' = Tail(dchan)
                  /\ dlog' = dlog \cup {<<a, "unimplemented">>}
                  /\ UNCHANGED dnq
            [] t = "UiState" ->
                  /\ StoreDispatchArm(t, a)
                  /\ dlog' = dlog \cup {<<a, t>>}
            [] t = "Ui" ->
                  /\ dchan' = Tail(dchan)
                  /\ dlog' = dlog \cup {<<a, "ui_tx">>}
                  /\ UNCHANGED <<dnq, dstop>>
            [] t = "Dispatcher" ->
                  /\ dchan' = Tail(dchan)
                  /\ dlog' = dlog \cup {<<a, "dispatcher">>}
                  /\ UNCHANGED <<dnq, dstop>>
    /\ UNCHANGED dsent
    /\ UNCHANGED nondvars

NextRoute == (\E a \in ExternalActions : D_Send(a)) \/ D_Recv

SpecRoute == InitRoute /\ [][NextRoute]_vars

----------------------------------------------------------------------------
\* Properties of the pipeline

RECURSIVE SumTo(_, _)
SumTo(f, n) == IF n = 0 THEN 0 ELSE f[n] + SumTo(f, n - 1)

\* Number of results the collector has observed
NumCollected == SumTo(collected, Len(records))

Holders(i) == {w \in Workers : witem[w] = i}

\* C1: when map returns, the collector has observed exactly one result per
\* input record (N results for N records).
NoLoss == cpc = "returned" => NumCollected = Len(records)

\* C2: when map returns, every record was pushed once, popped by exactly one
\* worker, gave exactly one result, and appears exactly once among the
\* results the collector received.
NoDuplication ==
    cpc = "returned" =>
        \A i \in Ids : /\ pushCnt[i] = 1
                       /\ popCnt[i] = 1
                       /\ resCnt[i] = 1
                       /\ collected[i] = 1

\* C3: under fair scheduling every run reaches the state in which map has
\* returned.
Termination == <>(cpc = "returned")

CompletionSignal ==
    cpc = "returned" =>
        /\ ppc = "done"
        /\ \A w \in Workers : wpc[w] = "done"
        /\ resQ = <<>>

ProducerNeverDrops ==
    /\ [](\A i \in Ids :
            pushCnt[i] = IF i < ppos \/ (i = ppos /\ ppc # "push")
                         THEN 1 ELSE 0)
    /\ [](shutdown => \A i \in Ids : pushCnt[i] = 1)
    /\ [][work # 0 =>
            \/ (work' = work /\ ppc' = "push")
            \/ (work' = 0 /\ workQ' = Append(workQ, work))]_vars

ProducerRetryWitness ==
    /\ ppc = "push"
    /\ work = Len(records)
    /\ Len(workQ) = cap
    /\ \A i \in Ids : i < work => pushCnt[i] = 1

\* C10: a worker holding a result keeps that same result until its push onto
\* the result queue succeeds; it pops no other item and does not terminate
\* while it holds one, so every aligned item is either still held or pushed.
WorkerNeverDrops ==
    /\ [](\A w \in Workers :
            wpc[w] \in {"pop", "load", "empty", "done"} => witem[w] = 0)
    /\ [](\A i \in Ids :
            records[i] => popCnt[i] = resCnt[i] + Cardinality(Holders(i)))
    /\ [][\A w \in Workers :
            wpc[w] = "push" =>
                \/ (wpc'[w] = "push" /\ witem'[w] = witem[w])
                \/ (wpc'[w] = "pop" /\ resQ' = Append(resQ, witem[w]))]_vars

WorkerRetryWitness ==
    \E w \in Workers :
        /\ wpc[w] = "push"
        /\ witem[w] # 0
        /\ Len(resQ) = cap
        /\ \E i \in Ids : resCnt[i] = 1

----------------------------------------------------------------------------
\* Properties of the index handle

AllHandlesDropped ==
    /\ hstate[0] = "dropped"
    /\ \A h \in Handles : hstate[h] \in {"none", "dropped"}

\* C6: mm_idx_destroy is never called twice, and once the original handle
\* and all of its clones are dropped it has been called exactly once.
DestroyExactlyOnce ==
    /\ destroyed <= 1
    /\ AllHandlesDropped => destroyed = 1

DestroyExactlyOnceWitness ==
    /\ \A h \in Handles : hstate[h] = "dropped"
    /\ Cardinality(Handles) >= 3

\* C7: while any handle is live the index has not been destroyed, no map
\* ever runs on a destroyed index, and every live handle sees a strong count
\* equal to the number of live handles (1 for the last survivor).
NoUseAfterDestroy ==
    /\ LiveHandles # {} => destroyed = 0
    /\ ~uad
    /\ \A h \in LiveHandles : strong[arcOf[h]] = Cardinality(LiveHandles)
    /\ \A h \in Handles : hstate[h] = "destroying" => LiveHandles = {}

LastSurvivorMapsWitness ==
    \E h \in Handles :
        /\ h # 0
        /\ LiveHandles = {h}
        /\ mapped[h] = 1
        /\ \A g \in Handles \ {h} : hstate[g] = "dropped"

----------------------------------------------------------------------------
\* Properties of the shutdown flag and of the boundary scenarios

\* C11: the flag goes from false to true only in the producer's store, which
\* comes after the source is exhausted and the last push succeeded; it is
\* never reset, and while it is true the producer holds no item and has no
\* record left to push.
ShutdownOnce ==
    /\ [](shutdown =>
            /\ ppc = "done"
            /\ work = 0
            /\ ppos = Len(records)
            /\ \A i \in Ids : pushCnt[i] = 1)
    /\ [][shutdown => shutdown']_vars
    /\ [][(~shutdown /\ shutdown') =>
            (ppc = "store" /\ ppc' = "done" /\ ppos = Len(records) /\ work = 0)]_vars
    /\ [][ppc = "done" => (ppc' = "done" /\ shutdown' = shutdown)]_vars

ShutdownOnceWitness ==
    /\ shutdown
    /\ Len(records) >= 2
    /\ \E w \in Workers : wpc[w] \in {"map", "push"}

\* C12: with thread_count = 0 map does not return success while a record
\* is unprocessed (it reports a configuration error instead).
ScenarioD ==
    threads = 0 => ~(cpc = "returned" /\ \E i \in Ids : collected[i] = 0)

NothingStarted ==
    /\ ppc = "unspawned"
    /\ \A w \in Workers : wpc[w] = "unspawned"
    /\ workQ = <<>>
    /\ resQ = <<>>
    /\ ~shutdown
    /\ \A i \in Ids : pushCnt[i] = 0 /\ popCnt[i] = 0 /\ resCnt[i] = 0

\* C14: the index is built once, before any thread is spawned; while it is
\* being built and after it failed nothing of the pipeline has started, and
\* a failed build is final (the expect panics in map itself).
BuildBeforeSpawn ==
    /\ [](cpc \in {"build", "build_panicked"} => NothingStarted)
    /\ [](cpc = "build_panicked" <=> (cpc # "build" /\ SetIndex(idxSrc) # "Ok"))
    /\ [](~NothingStarted => SetIndex(idxSrc) = "Ok")
    /\ [][cpc # "build" => cpc' # "build"]_vars
    /\ [][cpc = "build_panicked" => cpc' = "build_panicked"]_vars

BuildFailedWitness ==
    /\ cpc = "build_panicked"
    /\ threads >= 1
    /\ Len(records) >= 1
    /\ idxSrc.exists /\ idxSrc.empty

\* C20: every clone of the handle raises the shared count by exactly one and
\* every drop lowers it by exactly one; from the build to the return of map
\* the count is 1 (map's own handle) plus the number of spawned workers that
\* have not ended yet.
HandleCount ==
    /\ [](cpc \notin {"build", "build_panicked"} =>
            astrong = 1 + Cardinality(Running))
    /\ [][\A w \in Workers :
            /\ (wpc[w] = "unspawned" /\ wpc'[w] # "unspawned")
                  => astrong' = astrong + 1
            /\ (wpc[w] \notin {"unspawned", "done", "panicked"}
                    /\ wpc'[w] \in {"done", "panicked"})
                  => astrong' = astrong - 1]_vars
    /\ [][astrong' # astrong =>
            \/ cpc = "build"
            \/ \E w \in Workers : wpc'[w] # wpc[w]]_vars

HandleCountWitness ==
    /\ threads >= 2
    /\ cpc \in {"pop", "check"}
    /\ astrong = 2
    /\ \E w \in Workers : wpc[w] = "done"
    /\ \E w \in Workers : wpc[w] \in {"map", "push"}

----------------------------------------------------------------------------
\* Properties of the results

\* total of a single-threaded loop that maps each record once, in input
\* order, and sums the lengths of the results
RECURSIVE SequentialTotal(_)
SequentialTotal(n) == IF n = 0 THEN 0 ELSE SequentialTotal(n - 1) + NRegs(n)

\* the total of the results popped so far, whatever their order of arrival
RECURSIVE TotalOf(_, _)
TotalOf(f, n) == IF n = 0 THEN 0 ELSE TotalOf(f, n - 1) + f[n] * NRegs(n)

\* C15: when map returns, the aggregate mapping count equals the total of a
\* sequential loop over the same records.
SequentialEquivalence ==
    cpc = "returned" => num_alignments = SequentialTotal(Len(records))

\* C16: the collector's total depends only on which results were popped,
\* not on the order in which they arrived.
OrderIndependence == num_alignments = TotalOf(collected, Len(records))

OutOfOrderWitness ==
    /\ Len(records) >= 2
    /\ collected[1] = 0
    /\ collected[2] = 1
    /\ num_alignments = NRegs(2)

\* C17: once all threads have finished, every record has a result (Ok or
\* Err) pushed for it; a failed alignment is not an omission.
NoSilentOmission == AllFinished => \A i \in Ids : resCnt[i] = 1

\* C18: a worker panic never propagates out of map.
PanicContained == cpc # "panicked"

\* C19: a result pushed under an identifier carries the alignment computed
\* from the record with that identifier, and a worker about to push holds
\* the alignment of the item it popped.
Correlation ==
    /\ \A i \in Ids : alnOf[i] \in {0, i}
    /\ \A w \in Workers : wpc[w] = "push" => waln[w] = witem[w]

CorrelationWitness ==
    /\ Len(records) >= 2
    /\ alnOf[2] = 2
    /\ alnOf[1] = 0
    /\ \E w \in Workers : wpc[w] = "push" /\ witem[w] = 1

----------------------------------------------------------------------------
\* Properties of the builder

\* C21: a build on a bad source returns the error of the first failing check
\* (path with NUL, missing file, empty file, output with NUL, in that order),
\* produces no Built aligner, attaches no index and creates no foreign index.
BuildErrors ==
    /\ bst = "failed" =>
          /\ berr = (IF bsrc.nul THEN "Invalid Path for Index"
                     ELSE IF ~bsrc.exists THEN "Index File does not exist"
                     ELSE IF bsrc.empty THEN "Index File is empty"
                     ELSE "Invalid Output for Index")
          /\ bsrc.nul \/ ~bsrc.exists \/ bsrc.empty \/ bout = "SomeNul"
          /\ ~bidx
          /\ nforeign = 0
    /\ bst = "Built" =>
          /\ ~bsrc.nul /\ bsrc.exists /\ ~bsrc.empty
          /\ bout # "SomeNul"
          /\ berr = ""

BuildErrorsWitness ==
    /\ bst = "failed"
    /\ berr = "Index File is empty"
    /\ bout = "SomeNul"

\* C28 as stated: presets are applied only in state Unset.
PresetOnlyFromUnset == [][bpresets' # bpresets => bst = "Unset"]_vars

\* C28 amended: the state only moves Unset -> PresetSet -> Built; the preset
\* methods that enter PresetSet exist only in Unset, while presets, setters
\* and index construction act only in Unset and PresetSet; map acts only in
\* Built; a Built aligner keeps its configuration and its index.
BuilderStateMachine ==
    /\ [][bst' = "PresetSet" /\ bst # "PresetSet" => bst = "Unset"]_vars
    /\ [][bst' = "Built" /\ bst # "Built" => bst \in {"Unset", "PresetSet"}]_vars
    /\ [][<<bpresets, bclip, bidx, nforeign>>' # <<bpresets, bclip, bidx, nforeign>>
             => bst \in {"Unset", "PresetSet"}]_vars
    /\ [][bmaps' # bmaps => bst = "Built"]_vars
    /\ [][bst = "Built" =>
             /\ bst' = "Built"
             /\ <<bpresets, bclip, bidx>>' = <<bpresets, bclip, bidx>>]_vars

BuilderStateMachineWitness ==
    /\ bst = "Built"
    /\ Len(bpresets) = 2
    /\ bclip
    /\ bmaps > 0

----------------------------------------------------------------------------
\* Properties of the flag methods

\* C22: set_X sets exactly the bit of X and unset_X clears exactly the bit of
\* X, on either option struct; every other bit of the flag word, those above
\* bit 31 included, is left as it was.
FlagFrame ==
    [][/\ fop' = "set" /\ fword' = "map" => mflag' = mflag \cup {FlagBit(fflag')}
       /\ fop' = "unset" /\ fword' = "map" => mflag' = mflag \ {FlagBit(fflag')}
       /\ fop' = "set" /\ fword' = "idx" => iflag' = iflag \cup {FlagBit(fflag')}
       /\ fop' = "unset" /\ fword' = "idx" => iflag' = iflag \ {FlagBit(fflag')}]_vars

----------------------------------------------------------------------------
\* Properties of the shared index

\* C23: no method callable through a shared reference to a Built aligner
\* writes to the index, so no write ever overlaps another thread's access.
IndexImmutable == ixwrites = 0 /\ ~race

----------------------------------------------------------------------------
\* Properties of test_send

\* C24: each sender's batch equals the result of the building thread; the
\* receiver returns, only after both senders are done, with exactly two
\* batches, each equal to that result.
SendTwoBatches ==
    /\ [](\A t \in Senders : sres[t] # <<>> => sres[t] = alignments)
    /\ [](rpc = "returned" =>
             /\ \A t \in Senders : spc[t] = "done"
             /\ Len(ret) = 2
             /\ <<ret[1]>> = alignments
             /\ <<ret[2]>> = alignments)
    /\ <>(rpc = "returned")

SendTwoBatchesWitness ==
    /\ mpc = "passed"
    /\ Len(ret) = 2
    /\ ixjj

----------------------------------------------------------------------------
\* Properties of the queues and of the worker loop

\* the places that can hold record i between its read and its collection
InQueue(q, i) == \E k \in 1..Len(q) : q[k] = i

\* C25: both queues hold at most their capacity, the capacity never changes,
\* and every record read but not yet collected is in a queue, in the
\* producer's hands or in the hands of the one worker that popped it (or was
\* dropped by the panic of that worker): nothing is buffered elsewhere.
BoundedQueues ==
    /\ [](/\ Len(workQ) <= cap
          /\ Len(resQ) <= cap
          /\ \A i \in Ids :
                (i <= ppos /\ collected[i] = 0) =>
                   \/ InQueue(workQ, i)
                   \/ InQueue(resQ, i)
                   \/ work = i
                   \/ \E w \in Workers : witem[w] = i
                   \/ ~AlignOk(i) /\ popCnt[i] = 1
          /\ Cardinality({w \in Workers : witem[w] # 0}) <= threads)
    /\ [][cap' = cap]_vars

BoundedQueuesWitness ==
    /\ Len(workQ) = cap
    /\ Len(resQ) = cap
    /\ ppc = "push"
    /\ work # 0
    /\ pushCnt[work] = 0

\* the worker states of the specification
WorkerState(pc) ==
    IF pc \in {"pop", "load", "empty"} THEN "WaitingForWork"
    ELSE IF pc \in {"map", "push"} THEN "Processing"
    ELSE IF pc = "done" THEN "Terminated"
    ELSE pc

\* C26: a worker only moves WaitingForWork -> Processing on a successful pop,
\* Processing -> WaitingForWork after its result was pushed, or
\* WaitingForWork -> Terminated with the flag set and the work queue empty,
\* dropping its handle; otherwise it stays where it is, and Terminated is
\* absorbing.
WorkerStateMachine ==
    [][\A w \in Workers :
          LET a == WorkerState(wpc[w])
              b == WorkerState(wpc'[w])
          IN  a # b =>
                \/ /\ a = "WaitingForWork" /\ b = "Processing"
                   /\ witem'[w] = Head(workQ)
                   /\ workQ' = Tail(workQ)
                \/ /\ a = "Processing" /\ b = "WaitingForWork"
                   /\ resQ' = Append(resQ, witem[w])
                \/ /\ a = "WaitingForWork" /\ b = "Terminated"
                   /\ shutdown /\ workQ = <<>>
                   /\ astrong' = astrong - 1]_vars

----------------------------------------------------------------------------
\* Properties of the Python binding

\* C29: every sequence is popped from the work list by at most one worker,
\* and when map returns the mappings of every sequence are in the frame
\* exactly once.
PyExactlyOnce ==
    /\ \A i \in PySeqs : ypopped[i] <= 1
    /\ ycpc = "returned" => \A i \in PySeqs : ycollected[i] = 1

\* C30: every worker that has ended delivered exactly one Done marker, when
\* the collector leaves its loop no Work result is left in the queue, and
\* the collector does leave its loop.
PyCollectorTerminates ==
    /\ [](\A w \in PyWorkers : ywpc[w] = "exited" => ydelivered[w] = 1)
    /\ [](ycpc \in {"join", "returned"} => \A k \in 1..Len(yq) : yq[k] = 0)
    /\ <>(ycpc \notin {"pop", "sleep"})

----------------------------------------------------------------------------
\* Properties of kt_pipeline

\* the call of func for item j at step s has returned
KtDone(j, s) == \E b \in BOOLEAN : <<j, s, b>> \in khist

\* item j left the pipeline before step s: an earlier, non-final call for it
\* returned null and its worker terminated
KtDroppedBefore(j, s) ==
    \E d \in 0..(s - 1) : d # ksteps - 1 /\ <<j, d, TRUE>> \in khist

KtExitsOnEndOfInput ==
    [][\A w \in KtWorkers :
          (kpc[w] = "update" /\ kstep[w] = 0 /\ kret[w] = 0
              /\ kpc'[w] # "update")
          => kpc'[w] = "exited"]_vars

\* C33: func runs without the mutex held; its input is null at step 0 and
\* at a later step the value the same worker's previous call returned; after
\* the final step the worker restarts at step 0 with a fresh index; a worker
\* whose call returns null at a non-final step terminates and never calls
\* func again.
KtDataFlow ==
    /\ [](\A w \in KtWorkers :
            kpc[w] = "call" =>
                /\ kholder # w
                /\ kin[w] = IF kstep[w] = 0 THEN 0 ELSE kret[w])
    /\ [][\A w \in KtWorkers :
            /\ (kpc[w] = "update" /\ kpc'[w] # "update"
                    /\ kstep[w] = ksteps - 1)
                => /\ kpc'[w] = "lock"
                   /\ kstep'[w] = 0
                   /\ kidx'[w] = kindex
                   /\ \A a \in DOMAIN kassigned : kassigned[a] # kidx'[w]
            /\ (kpc[w] = "update" /\ kpc'[w] # "update"
                    /\ kstep[w] # ksteps - 1 /\ kret[w] = 0)
                => kpc'[w] = "exited"
            /\ kpc[w] = "exited" => kpc'[w] = "exited"]_vars

\* a restarted worker is in func at a later step with the data of its own
\* previous call, next to a worker that terminated on a null return
KtDataFlowWitness ==
    \E w, o \in KtWorkers :
        /\ kpc[w] = "call"
        /\ kstep[w] > 0
        /\ kin[w] # 0
        /\ kidx[w] >= kn
        /\ kpc[o] = "exited"
        /\ kdata[o] = 0

----------------------------------------------------------------------------
\* Properties of the fakeminimap2 stores

\* C34: whatever the interleaving of the add_mappings tasks and the
\* SetSelectedMappings dispatches, the entry stored for an id ends up holding
\* every mapping passed in an AddMappings for that id.
StoreKeepsEveryMapping ==
    (/\ mdpc = "idle"
     /\ \A k \in AddTasks : mtask[k] \in {"unspawned", "done"}) =>
        \A k \in AddTasks :
            mtask[k] = "done" =>
                /\ mstore[mid[k]] # 0
                /\ k \in mcontent[mstore[mid[k]]]

\* C35: whatever AddQuerySequence and SetSelectedQuery(n) actions arrive,
\* dispatch does not panic and current is a valid index of query_sequences;
\* an Up or Down key press never requests an index outside 0..len-1.
QuerySelectionValid ==
    /\ ~qpanic
    /\ qlen > 0 => qcurrent \in 0..(qlen - 1)
    /\ \A i \in DOMAIN qchan :
          qchan[i].from = "key" => qchan[i].n \in 0..(qlen - 1)

----------------------------------------------------------------------------
\* Properties of main of fakeminimap2

\* work items in work_queue or in a worker's hands before the alignment
MainPendingWork ==
    {gwork[i] : i \in DOMAIN gwork}
        \cup {gwitem[w] : w \in {v \in MainWorkers : gwpc[v] = "map"}}

\* alignments in a worker's hands or in results_queue
MainPendingResults ==
    {gres[i] : i \in DOMAIN gres}
        \cup {gwitem[w] : w \in {v \in MainWorkers : gwpc[v] = "push"}}

\* C36: a full queue delays but never discards: every work item the feeder
\* has tried to push is aligned or still on its way to a worker, and every
\* alignment computed is counted or still on its way to the collector loop.
MainNeverDiscards ==
    /\ \A a \in 1..gnext : a \in galigned \/ a \in MainPendingWork
    /\ \A a \in galigned : a \in gcounted \/ a \in MainPendingResults

----------------------------------------------------------------------------
\* Properties of Aligner::map

\* C37: map returns Err("No index") when no index is attached, otherwise
\* Err("Sequence is empty") for an empty sequence; in both cases it makes no
\* foreign alignment call, does not touch the thread-local buffer and leaves
\* the aligner unchanged.
MapRejectsEarly ==
    [][amaps' # amaps =>
          /\ ~aidx => aret' = "No index"
          /\ (aidx /\ aseq' = "empty") => aret' = "Sequence is empty"
          /\ (~aidx \/ aseq' = "empty") =>
                /\ acalls' = acalls
                /\ tvars' = tvars
                /\ aopt' = aopt
                /\ <<aidx, amapflag, amaxfrag>>' = <<aidx, amapflag, amaxfrag>>]_vars

\* an empty sequence is rejected after an earlier call on the same thread
\* went through to mm_map and created the buffer
MapRejectsEarlyWitness ==
    /\ aret = "Sequence is empty"
    /\ acalls = 1
    /\ amaps = 2
    /\ tbuf[MapThread] = "live"

----------------------------------------------------------------------------
\* Properties of the dispatcher of fakeminimap2

====
